---- MODULE Spec2Model ----
(***************************************************************************)
(* Verification model of the Mariner image customizer                      *)
(* (toolkit/tools/imagecustomizerlib and toolkit/tools/internal/safemount).*)
(*                                                                         *)
(* Three specifications share this module:                                 *)
(*   SpecMount  the scoped mount handle, safemount.Mount                   *)
(*   SpecRpm    the RPM sources composer, rpmSourcesMounts                 *)
(*   Spec       the orchestrator, CustomizeImage and what it calls         *)
(***************************************************************************)
EXTENDS Integers, Sequences, FiniteSets, TLC

VARIABLES
    mnt,      \* safemount.Mount handle under test (or NoHandle)
    mfs,      \* the mount target as the kernel and filesystem see it
    mret,     \* what the last NewMount / Close call did and returned
    mhist,    \* history of the handle: calls made, whether a Close succeeded
    rpm,      \* rpmSourcesMounts handle held by the caller
    rfs,      \* the chroot as the RPM sources composer sees it
    rret,     \* what the last mountRpmSources / close call did and returned
    rhist,    \* history of the rpm sources handle
    cfg,      \* arguments of the CustomizeImage invocation
    pc,       \* the step the invocation is about to run
    trace,    \* steps run so far, each with its outcome
    res,      \* resources the invocation holds on the host
    err,      \* the error being returned, if any
    defers,   \* deferred calls of customizeImageHelper, oldest first
    cidefers, \* deferred calls of CustomizeImage, oldest first
    result,   \* what CustomizeImage returned
    scr,      \* a runScripts call: arguments, position, commands run, first failure
    kcl,      \* grub.cfg and a handleKernelCommandLine call made on it
    shd,      \* /etc/shadow and a Chage call made on it
    tk,       \* the grub tokenizer: scanner, tokens so far, position in the code
    call      \* one call of a function: its arguments and, once made, its result

mountVars == <<mnt, mfs, mret, mhist>>

rpmVars == <<rpm, rfs, rret, rhist>>

orchVars == <<cfg, pc, trace, res, err, defers, cidefers, result>>

utilVars == <<scr, kcl, shd, tk, call>>

vars == <<mnt, mfs, mret, mhist, rpm, rfs, rret, rhist,
          cfg, pc, trace, res, err, defers, cidefers, result, scr, kcl, shd, tk, call>>

\* Number of NewMount / Close calls explored in one behaviour.
MaxMountOps == 6

NoHandle == [target |-> "none", isMounted |-> FALSE, dirCreated |-> FALSE]

NoErr == {}

\* F applied to the value of e, with e evaluated once.
Once(e, F(_)) == CHOOSE out \in {F(x) : x \in {e}} : TRUE

(***************************************************************************)
(* The filesystem as seen at one mount target.                             *)
(*   dir      "absent", "empty" or "nonempty" (content below any mount)    *)
(*   mounted  a filesystem is mounted on the directory                     *)
(***************************************************************************)
DirStates == {"absent", "empty", "nonempty"}

\* os.MkdirAll(target): creates the directory when it is missing, succeeds
\* on an existing directory, and may fail for reasons of the host (ok).
MkdirAll(fs, ok) ==
    IF ~ok THEN [fs |-> fs, err |-> {"mkdir"}]
    ELSE [fs |-> [fs EXCEPT !.dir = IF fs.dir = "absent" THEN "empty" ELSE fs.dir],
          err |-> NoErr]

\* unix.Mount(source, target, ...): needs the target directory to exist; the
\* host decides the rest (ok).
SysMount(fs, ok) ==
    IF ok /\ fs.dir # "absent"
    THEN [fs |-> [fs EXCEPT !.mounted = TRUE], err |-> NoErr]
    ELSE [fs |-> fs, err |-> {"mount"}]

\* unix.Unmount(target, 0): fails when nothing is mounted, or when the host
\* reports the mount busy (ok = FALSE).
SysUnmount(fs, ok) ==
    IF ok /\ fs.mounted
    THEN [fs |-> [fs EXCEPT !.mounted = FALSE], err |-> NoErr]
    ELSE [fs |-> fs, err |-> {"unmount"}]

\* os.Remove(target): non-recursive; removes only an empty directory that is
\* not a mount point.
OsRemove(fs) ==
    IF fs.dir = "empty" /\ ~fs.mounted
    THEN [fs |-> [fs EXCEPT !.dir = "absent"], err |-> NoErr]
    ELSE [fs |-> fs, err |-> {"remove"}]

(***************************************************************************)
(* Mount.Close.  Returns the handle and filesystem after the call, the     *)
(* error it returns, and the system calls it made, in order.               *)
(***************************************************************************)
CloseKeepsDirCreated(m, fs, unmountOk) ==
    LET u == IF m.isMounted THEN SysUnmount(fs, unmountOk) ELSE [fs |-> fs, err |-> NoErr]
        c1 == IF m.isMounted THEN <<"unmount">> ELSE <<>>
    IN  IF u.err # NoErr
        THEN [m |-> m, fs |-> fs, err |-> u.err, calls |-> c1]
        ELSE LET m1 == [m EXCEPT !.isMounted = FALSE]
                 r  == IF m.dirCreated THEN OsRemove(u.fs) ELSE [fs |-> u.fs, err |-> NoErr]
                 c2 == IF m.dirCreated THEN c1 \o <<"remove">> ELSE c1
             IN  [m |-> m1, fs |-> r.fs, err |-> r.err, calls |-> c2]

CloseBothSteps(m, fs, unmountOk) ==
    LET u  == IF m.isMounted THEN SysUnmount(fs, unmountOk) ELSE [fs |-> fs, err |-> NoErr]
        c1 == IF m.isMounted THEN <<"unmount">> ELSE <<>>
        m1 == IF u.err = NoErr THEN [m EXCEPT !.isMounted = FALSE] ELSE m
        r  == IF m.dirCreated THEN OsRemove(u.fs) ELSE [fs |-> u.fs, err |-> NoErr]
        c2 == IF m.dirCreated THEN c1 \o <<"remove">> ELSE c1
        m2 == IF m.dirCreated /\ r.err = NoErr THEN [m1 EXCEPT !.dirCreated = FALSE] ELSE m1
    IN  [m |-> m2, fs |-> r.fs, err |-> u.err \cup r.err, calls |-> c2]

Close(m, fs, unmountOk) ==
    LET u == IF m.isMounted THEN SysUnmount(fs, unmountOk) ELSE [fs |-> fs, err |-> NoErr]
        c1 == IF m.isMounted THEN <<"unmount">> ELSE <<>>
    IN  IF u.err # NoErr
        THEN \* return fmt.Errorf("failed to unmount ...")
             [m |-> m, fs |-> fs, err |-> u.err, calls |-> c1]
        ELSE LET m1 == [m EXCEPT !.isMounted = FALSE]
                 r  == IF m.dirCreated THEN OsRemove(u.fs) ELSE [fs |-> u.fs, err |-> NoErr]
                 c2 == IF m.dirCreated THEN c1 \o <<"remove">> ELSE c1
             IN  IF r.err # NoErr
                 THEN [m |-> m1, fs |-> r.fs, err |-> r.err, calls |-> c2]
                 ELSE [m |-> [m1 EXCEPT !.dirCreated = FALSE], fs |-> r.fs,
                       err |-> NoErr, calls |-> c2]

(***************************************************************************)
(* Mount.newMountHelper: optional MkdirAll, then unix.Mount.               *)
(***************************************************************************)
newMountHelper(m, fs, makeAndDeleteDir, mkdirOk, mountOk) ==
    LET d  == IF makeAndDeleteDir THEN MkdirAll(fs, mkdirOk) ELSE [fs |-> fs, err |-> NoErr]
        c1 == IF makeAndDeleteDir THEN <<"mkdir">> ELSE <<>>
    IN  IF d.err # NoErr
        THEN [m |-> m, fs |-> d.fs, err |-> d.err, calls |-> c1]
        ELSE LET m1 == IF makeAndDeleteDir THEN [m EXCEPT !.dirCreated = TRUE] ELSE m
                 k  == SysMount(d.fs, mountOk)
             IN  IF k.err # NoErr
                 THEN [m |-> m1, fs |-> k.fs, err |-> k.err, calls |-> c1 \o <<"mount">>]
                 ELSE [m |-> [m1 EXCEPT !.isMounted = TRUE], fs |-> k.fs,
                       err |-> NoErr, calls |-> c1 \o <<"mount">>]

(***************************************************************************)
(* safemount.NewMount: on failure of the helper the half-built handle is   *)
(* closed (a failure of that cleanup is only logged) and nil is returned.  *)
(***************************************************************************)
NewMountNoCleanup(target, fs, makeAndDeleteDir, mkdirOk, mountOk) ==
    LET m0 == [target |-> target, isMounted |-> FALSE, dirCreated |-> FALSE] IN
    Once(newMountHelper(m0, fs, makeAndDeleteDir, mkdirOk, mountOk), LAMBDA h :
        IF h.err # NoErr
        THEN [m |-> NoHandle, fs |-> h.fs, err |-> h.err, calls |-> h.calls,
              cleanupErr |-> NoErr]
        ELSE [m |-> h.m, fs |-> h.fs, err |-> NoErr, calls |-> h.calls,
              cleanupErr |-> NoErr])

NewMount(target, fs, makeAndDeleteDir, mkdirOk, mountOk) ==
    LET m0 == [target |-> target, isMounted |-> FALSE, dirCreated |-> FALSE] IN
    Once(newMountHelper(m0, fs, makeAndDeleteDir, mkdirOk, mountOk), LAMBDA h :
        IF h.err # NoErr
        THEN \* cleanupErr := mount.Close(); return nil, err
             Once(Close(h.m, h.fs, TRUE), LAMBDA c :
                  [m |-> NoHandle, fs |-> c.fs, err |-> h.err,
                   calls |-> h.calls \o c.calls, cleanupErr |-> c.err])
        ELSE [m |-> h.m, fs |-> h.fs, err |-> NoErr, calls |-> h.calls,
              cleanupErr |-> NoErr])


(***************************************************************************)
(* RPM sources composer (rpmsourcesmounts.go).                             *)
(***************************************************************************)

\* Number of RPM sources given to one mountRpmSources call.
MaxSources == 2

\* Number of `file://` repos in one repo config source.
MaxConfMounts == 2

\* Most mounts one handle can hold: resolv.conf and those of the sources.
MaxRpmMounts == 1 + MaxSources * MaxConfMounts

\* An RPM source as getRpmSourceFileType classifies it, with the number of
\* directories it makes the composer mount.
SourceSet ==
    {[kind |-> "dir", n |-> 1], [kind |-> "tar", n |-> 1], [kind |-> "other", n |-> 0]}
        \cup {[kind |-> "conf", n |-> k] : k \in {0, MaxConfMounts}}

SourceSeqs == UNION {[1..l -> SourceSet] : l \in 0..MaxSources}

NoRpm == [state |-> "none", rpmsMountParentDirCreated |-> FALSE, mounts |-> <<>>,
          allReposConfigFilePath |-> FALSE]

\* No rpm sources handle exists and none has been asked for.
RpmIdle ==
    /\ rpm = NoRpm
    /\ rfs = [parent |-> FALSE, repoFile |-> FALSE,
              t |-> [k \in 1..MaxRpmMounts |-> [dir |-> "absent", mounted |-> FALSE]]]
    /\ rret = [op |-> "none", err |-> NoErr, cleanupErr |-> NoErr, events |-> <<>>,
               closeRan |-> FALSE, closeErr |-> NoErr, handle |-> FALSE]
    /\ rhist = [created |-> FALSE, acquired |-> 0]

RECURSIVE Concat(_)
Concat(ss) == IF ss = <<>> THEN <<>> ELSE Head(ss) \o Concat(Tail(ss))

\* The fallible steps one source takes in mountRpmSourcesHelper, in order.
StepsOf(src) ==
    IF src.kind = "other" THEN <<"type", "unknown">>
    ELSE <<"type", "prep">> \o Concat([i \in 1..src.n |-> <<"mount", "append">>])

\* The fallible steps of mountRpmSourcesHelper, in order.
HelperSteps(rpmsSources, useBaseImageRpmRepos) ==
    <<"mkdirParent", "mount">>
        \o (IF useBaseImageRpmRepos THEN <<"baseRepos">> ELSE <<>>)
        \o Concat([i \in 1..Len(rpmsSources) |-> StepsOf(rpmsSources[i])])
        \o <<"save">>

\* One step of mountRpmSourcesHelper.  fail.at names the step that the host
\* makes fail (0: none), fail.how the system call of NewMount that fails.
HelperStep(step, i, st, fail) ==
    LET failing == (fail.at = i) IN
    CASE step = "mkdirParent" ->
            \* os.Mkdir fails when the directory already exists
            IF failing \/ st.fs.parent
            THEN [st EXCEPT !.err = {"mkdirParent"}]
            ELSE [st EXCEPT !.fs.parent = TRUE, !.m.rpmsMountParentDirCreated = TRUE]
      [] step = "mount" ->
            \* mountResolvConf and mountRpmsDirectory: i := len(m.mounts)
            LET k == Len(st.m.mounts) + 1 IN
            Once(NewMount(k, st.fs.t[k], TRUE,
                          ~(failing /\ fail.how = "mkdir"),
                          ~(failing /\ fail.how = "mount")), LAMBDA r :
                IF r.err # NoErr
                THEN [st EXCEPT !.err = r.err, !.fs.t[k] = r.fs]
                ELSE [st EXCEPT !.fs.t[k] = r.fs,
                                !.m.mounts = Append(st.m.mounts, r.m)])
      [] step = "unknown" -> [st EXCEPT !.err = {"unknownType"}]
      [] step = "save" ->
            \* m.allReposConfigFilePath is set before SaveTo; a failed SaveTo
            \* may leave a partial file behind
            IF failing
            THEN [st EXCEPT !.err = {"save"}, !.m.allReposConfigFilePath = TRUE,
                            !.fs.repoFile = fail.partial]
            ELSE [st EXCEPT !.m.allReposConfigFilePath = TRUE, !.fs.repoFile = TRUE]
      [] OTHER ->
            IF failing THEN [st EXCEPT !.err = {step}] ELSE st

RECURSIVE RunHelperSteps(_, _, _, _)
RunHelperSteps(steps, i, st, fail) ==
    IF i > Len(steps) \/ st.err # NoErr THEN st
    ELSE Once(HelperStep(steps[i], i, st, fail),
              LAMBDA nxt : RunHelperSteps(steps, i + 1, nxt, fail))

\* rpmSourcesMounts.mountRpmSourcesHelper
mountRpmSourcesHelper(fs, rpmsSources, useBaseImageRpmRepos, fail) ==
    RunHelperSteps(HelperSteps(rpmsSources, useBaseImageRpmRepos), 1,
                   [m |-> [NoRpm EXCEPT !.state = "live"], fs |-> fs, err |-> NoErr], fail)

\* The parent directory is empty when neither allrepos.repo nor a mount
\* directory is left in it (mount 1, resolv.conf, lives outside of it).
ParentEmpty(fs) ==
    /\ ~fs.repoFile
    /\ \A k \in 2..MaxRpmMounts : fs.t[k].dir = "absent"

\* Variant of the loop below: last mount first.
RECURSIVE CloseMountsReverse(_, _, _, _)
CloseMountsReverse(i, mounts, fs, busy) ==
    LET j == Len(mounts) + 1 - i IN
    IF i > Len(mounts) THEN [mounts |-> mounts, fs |-> fs, errs |-> NoErr, events |-> <<>>]
    ELSE Once(Close(mounts[j], fs.t[mounts[j].target], j \notin busy), LAMBDA c :
         Once(CloseMountsReverse(i + 1, [mounts EXCEPT ![j] = c.m],
                                 [fs EXCEPT !.t[mounts[j].target] = c.fs], busy), LAMBDA rest :
              [rest EXCEPT !.errs = c.err \cup rest.errs,
                           !.events = <<<<"close", j>>>> \o rest.events]))

\* The loop of close over m.mounts, from mount i on, in slice order.
RECURSIVE CloseMountsFrom(_, _, _, _)
CloseMountsFrom(i, mounts, fs, busy) ==
    IF i > Len(mounts) THEN [mounts |-> mounts, fs |-> fs, errs |-> NoErr, events |-> <<>>]
    ELSE Once(Close(mounts[i], fs.t[mounts[i].target], i \notin busy), LAMBDA c :
         Once(CloseMountsFrom(i + 1, [mounts EXCEPT ![i] = c.m],
                              [fs EXCEPT !.t[mounts[i].target] = c.fs], busy), LAMBDA rest :
              [rest EXCEPT !.errs = c.err \cup rest.errs,
                           !.events = <<<<"close", i>>>> \o rest.events]))

\* Variant of close that never removes the parent directory.
rpmCloseLeavesParent(m, fs, busy, rmRepoOk) ==
    LET e1  == IF m.allReposConfigFilePath /\ ~rmRepoOk THEN {"rmRepo"} ELSE NoErr
        fs1 == IF m.allReposConfigFilePath /\ rmRepoOk
               THEN [fs EXCEPT !.repoFile = FALSE] ELSE fs
    IN  Once(CloseMountsFrom(1, m.mounts, fs1, busy), LAMBDA c :
             [m |-> [m EXCEPT !.mounts = c.mounts], fs |-> c.fs,
              err |-> e1 \cup c.errs, events |-> <<<<"rmRepo", 0>>>> \o c.events])

\* Variant of close that goes on to the parent directory after errors.
rpmCloseRemovesParentAnyway(m, fs, busy, rmRepoOk) ==
    LET e1  == IF m.allReposConfigFilePath /\ ~rmRepoOk THEN {"rmRepo"} ELSE NoErr
        fs1 == IF m.allReposConfigFilePath /\ rmRepoOk
               THEN [fs EXCEPT !.repoFile = FALSE] ELSE fs
    IN  Once(CloseMountsFrom(1, m.mounts, fs1, busy), LAMBDA c :
        LET m1  == [m EXCEPT !.mounts = c.mounts]
            ev  == <<<<"rmRepo", 0>>>> \o c.events
        IN  IF ~m.rpmsMountParentDirCreated
            THEN [m |-> m1, fs |-> c.fs, err |-> e1 \cup c.errs, events |-> ev]
            ELSE IF c.fs.parent /\ ParentEmpty(c.fs)
            THEN [m |-> [m1 EXCEPT !.rpmsMountParentDirCreated = FALSE],
                  fs |-> [c.fs EXCEPT !.parent = FALSE], err |-> e1 \cup c.errs,
                  events |-> ev \o <<<<"rmParent", 0>>>>]
            ELSE [m |-> m1, fs |-> c.fs, err |-> e1 \cup c.errs \cup {"rmParent"},
                  events |-> ev \o <<<<"rmParent", 0>>>>])

\* rpmSourcesMounts.close; busy: the mounts the host refuses to unmount,
\* rmRepoOk: whether os.RemoveAll of allrepos.repo succeeds.
rpmClose(m, fs, busy, rmRepoOk) ==
    LET \* os.RemoveAll(m.allReposConfigFilePath); with the path still "" there
        \* is nothing to do and no error
        e1  == IF m.allReposConfigFilePath /\ ~rmRepoOk THEN {"rmRepo"} ELSE NoErr
        fs1 == IF m.allReposConfigFilePath /\ rmRepoOk
               THEN [fs EXCEPT !.repoFile = FALSE] ELSE fs
    IN  \* for _, mount := range m.mounts
        Once(CloseMountsFrom(1, m.mounts, fs1, busy), LAMBDA c :
        LET m1  == [m EXCEPT !.mounts = c.mounts]
            ev  == <<<<"rmRepo", 0>>>> \o c.events
        IN  IF e1 \cup c.errs # NoErr
            THEN \* errors.Join(errs...): the parent directory is left alone
                 [m |-> m1, fs |-> c.fs, err |-> e1 \cup c.errs, events |-> ev]
            ELSE IF ~m.rpmsMountParentDirCreated
            THEN [m |-> m1, fs |-> c.fs, err |-> NoErr, events |-> ev]
            ELSE \* os.Remove(m.rpmsMountParentDir), non-recursive
                 IF c.fs.parent /\ ParentEmpty(c.fs)
            THEN [m |-> [m1 EXCEPT !.rpmsMountParentDirCreated = FALSE],
                  fs |-> [c.fs EXCEPT !.parent = FALSE], err |-> NoErr,
                  events |-> ev \o <<<<"rmParent", 0>>>>]
            ELSE [m |-> m1, fs |-> c.fs, err |-> {"rmParent"},
                  events |-> ev \o <<<<"rmParent", 0>>>>])

\* Variant of mountRpmSources that returns the error without closing.
mountRpmSourcesNoCleanup(fs, rpmsSources, useBaseImageRpmRepos, fail, busy, rmRepoOk) ==
    Once(mountRpmSourcesHelper(fs, rpmsSources, useBaseImageRpmRepos, fail), LAMBDA h :
        [handle |-> IF h.err # NoErr THEN NoRpm ELSE h.m, built |-> h.m, fs |-> h.fs,
         err |-> h.err, cleanupErr |-> NoErr, events |-> <<>>, closeRan |-> FALSE])

\* mountRpmSources: on failure of the helper the handle is closed, a failure
\* of that cleanup is logged, and (nil, err) is returned.
mountRpmSources(fs, rpmsSources, useBaseImageRpmRepos, fail, busy, rmRepoOk) ==
    Once(mountRpmSourcesHelper(fs, rpmsSources, useBaseImageRpmRepos, fail), LAMBDA h :
        IF h.err # NoErr
        THEN \* cleanupErr := mounts.close(); return nil, err
             Once(rpmClose(h.m, h.fs, busy, rmRepoOk), LAMBDA c :
                  [handle |-> NoRpm, built |-> h.m, fs |-> c.fs, err |-> h.err,
                   cleanupErr |-> c.err, events |-> c.events, closeRan |-> TRUE])
        ELSE [handle |-> h.m, built |-> h.m, fs |-> h.fs, err |-> NoErr,
              cleanupErr |-> NoErr, events |-> <<>>, closeRan |-> FALSE])

(***************************************************************************)
(* The orchestrator: CustomizeImage, customizeImageHelper, doCustomizations.*)
(***************************************************************************)
NoRes == [buildDir |-> FALSE, rawImage |-> FALSE, toolsLoop |-> FALSE,
          toolsChroot |-> FALSE, loop |-> FALSE, chroot |-> FALSE,
          resolv |-> FALSE, rpmSources |-> FALSE, output |-> FALSE]

\* No invocation of CustomizeImage is under way.
OrchIdle ==
    /\ cfg = [fmtOk |-> TRUE, cfgValid |-> TRUE, toolsBin |-> FALSE,
              packages |-> FALSE, rpmsSources |-> FALSE]
    /\ pc = "idle"
    /\ trace = <<>>
    /\ res = NoRes
    /\ err = FALSE
    /\ defers = <<>>
    /\ cidefers = <<>>
    /\ result = "none"

\* The steps of doCustomizations, in the order of the code.
DcSteps == <<"overrideResolvConf", "updatePackages", "updateHostname",
             "copyAdditionalFiles", "postInstallScripts", "kernelCommandLine",
             "finalizeScripts", "deleteResolvConf">>

IndexOf(x, s) == CHOOSE i \in 1..Len(s) : s[i] = x

\* doCustomizations: where control goes after a step that returned ok / an
\* error.  "return" leaves the function.
doCustomizationsIgnoringErrors(step, ok) ==
    LET i == IndexOf(step, DcSteps)
    IN  IF i < Len(DcSteps) THEN DcSteps[i + 1] ELSE "return"

doCustomizations(step, ok) ==
    LET i == IndexOf(step, DcSteps)
    IN  IF ~ok THEN "return"
        ELSE IF i < Len(DcSteps) THEN DcSteps[i + 1] ELSE "return"

\* The steps of CustomizeImage before customizeImageHelper, in the order of
\* the code; "return" leaves the function with the error.
CustomizeImageUnvalidated(step, ok, toolsBinPath) ==
    CASE step = "validateFormat"      -> IF ok THEN "validateConfig" ELSE "return"
      [] step = "validateConfig"      -> "mkdirBuildDir"
      [] step = "mkdirBuildDir"       ->
            IF ~ok THEN "return"
            ELSE IF toolsBinPath THEN "toolsLoopback" ELSE "convertToRaw"
      [] step = "toolsLoopback"       -> IF ok THEN "toolsChroot" ELSE "return"
      [] step = "toolsChroot"         -> "convertToRaw"
      [] step = "convertToRaw"        -> IF ok THEN "customizePartitions" ELSE "return"
      [] step = "customizePartitions" -> IF ok THEN "attachLoopback" ELSE "return"
      [] step = "customizeImageHelper" -> IF ok THEN "convertOutput" ELSE "return"
      [] step = "convertOutput"       -> "return"

\* Variant that goes on to write the output image whatever
\* customizeImageHelper returned.
CustomizeImageConvertsAnyway(step, ok, toolsBinPath) ==
    CASE step = "validateFormat"      -> IF ok THEN "validateConfig" ELSE "return"
      [] step = "validateConfig"      -> IF ok THEN "mkdirBuildDir" ELSE "return"
      [] step = "mkdirBuildDir"       ->
            IF ~ok THEN "return"
            ELSE IF toolsBinPath THEN "toolsLoopback" ELSE "convertToRaw"
      [] step = "toolsLoopback"       -> IF ok THEN "toolsChroot" ELSE "return"
      [] step = "toolsChroot"         -> "convertToRaw"
      [] step = "convertToRaw"        -> IF ok THEN "customizePartitions" ELSE "return"
      [] step = "customizePartitions" -> IF ok THEN "attachLoopback" ELSE "return"
      [] step = "customizeImageHelper" -> "convertOutput"
      [] step = "convertOutput"       -> "return"

CustomizeImage(step, ok, toolsBinPath) ==
    CASE step = "validateFormat"      -> IF ok THEN "validateConfig" ELSE "return"
      [] step = "validateConfig"      -> IF ok THEN "mkdirBuildDir" ELSE "return"
      [] step = "mkdirBuildDir"       ->
            IF ~ok THEN "return"
            ELSE IF toolsBinPath THEN "toolsLoopback" ELSE "convertToRaw"
      [] step = "toolsLoopback"       -> IF ok THEN "toolsChroot" ELSE "return"
         \* the result of ConnectChroot is dropped: the test that follows
         \* reads the err of ConnectLoopback, which is nil here
      [] step = "toolsChroot"         -> "convertToRaw"
      [] step = "convertToRaw"        -> IF ok THEN "customizePartitions" ELSE "return"
      [] step = "customizePartitions" -> IF ok THEN "attachLoopback" ELSE "return"
      [] step = "customizeImageHelper" -> IF ok THEN "convertOutput" ELSE "return"
      [] step = "convertOutput"       -> "return"

\* customizeImageHelper up to doCustomizations.
customizeImageHelper(step, ok) ==
    CASE step = "attachLoopback" -> IF ok THEN "findPartitions" ELSE "return"
      [] step = "findPartitions" -> IF ok THEN "chrootInit" ELSE "return"
      [] step = "chrootInit"     -> IF ok THEN DcSteps[1] ELSE "return"

\* What a step does to the host when it succeeds.
Effect(step, r) ==
    CASE step = "mkdirBuildDir"      -> [r EXCEPT !.buildDir = TRUE]
      [] step = "toolsLoopback"      -> [r EXCEPT !.toolsLoop = TRUE]
      [] step = "toolsChroot"        -> [r EXCEPT !.toolsChroot = TRUE]
      [] step = "convertToRaw"       -> [r EXCEPT !.rawImage = TRUE]
      [] step = "attachLoopback"     -> [r EXCEPT !.loop = TRUE]
      [] step = "chrootInit"         -> [r EXCEPT !.chroot = TRUE]
      [] step = "overrideResolvConf" -> [r EXCEPT !.resolv = TRUE]
      [] step = "deleteResolvConf"   -> [r EXCEPT !.resolv = FALSE]
      [] step = "mountRpmSources"    -> [r EXCEPT !.rpmSources = TRUE]
      [] step = "rpmSourcesClose"    -> [r EXCEPT !.rpmSources = FALSE]
      [] step = "chrootClose"        -> [r EXCEPT !.chroot = FALSE]
      [] step = "detachLoopback"     -> [r EXCEPT !.loop = FALSE]
      [] step = "toolsClose"         -> [r EXCEPT !.toolsLoop = FALSE, !.toolsChroot = FALSE]
      [] step = "convertOutput"      -> [r EXCEPT !.output = TRUE]
      [] OTHER -> r

Ev(step, ok) == [step |-> step, ok |-> ok]

\* The effects of a list of events, in order.
RECURSIVE ApplyEvents(_, _)
ApplyEvents(evs, r) ==
    IF evs = <<>> THEN r
    ELSE ApplyEvents(Tail(evs), IF Head(evs).ok THEN Effect(Head(evs).step, r) ELSE r)

\* Variant of updatePackagesHelper that closes the RPM sources only with the
\* explicit call after the last package.
updatePackagesHelperNoDefer(packages, rpmsSources, o) ==
    IF ~packages THEN [ok |-> TRUE, events |-> <<>>]
    ELSE IF ~rpmsSources THEN [ok |-> FALSE, events |-> <<>>]
    ELSE IF ~o.mount THEN [ok |-> FALSE, events |-> <<Ev("mountRpmSources", FALSE)>>]
    ELSE IF ~o.install
    THEN [ok |-> FALSE,
          events |-> <<Ev("mountRpmSources", TRUE), Ev("tdnfInstall", FALSE)>>]
    ELSE [ok |-> o.close,
          events |-> <<Ev("mountRpmSources", TRUE), Ev("tdnfInstall", TRUE),
                       Ev("rpmSourcesClose", o.close)>>]

\* updatePackagesHelper.  o.mount, o.install, o.close, o.deferred: whether
\* mountRpmSources, the tdnf installs, the explicit mounts.close() and the
\* deferred mounts.close() succeed.
updatePackagesHelper(packages, rpmsSources, o) ==
    IF ~packages THEN [ok |-> TRUE, events |-> <<>>]
    ELSE IF ~rpmsSources THEN [ok |-> FALSE, events |-> <<>>]
    ELSE IF ~o.mount THEN [ok |-> FALSE, events |-> <<Ev("mountRpmSources", FALSE)>>]
    ELSE IF ~o.install
    THEN \* return fmt.Errorf("failed to install package ..."); the deferred
         \* mounts.close() runs
         [ok |-> FALSE,
          events |-> <<Ev("mountRpmSources", TRUE), Ev("tdnfInstall", FALSE),
                       Ev("rpmSourcesClose", o.deferred)>>]
    ELSE \* err = mounts.close(), then the deferred mounts.close(): a no-op
         \* on a handle that was closed, a second attempt on one that was not
         [ok |-> o.close,
          events |-> <<Ev("mountRpmSources", TRUE), Ev("tdnfInstall", TRUE),
                       Ev("rpmSourcesClose", o.close),
                       Ev("rpmSourcesClose", o.close \/ o.deferred)>>]

\* updatePackages: collectPackagesList, then updatePackagesHelper.
updatePackages(packages, rpmsSources, o) ==
    IF ~o.collect THEN [ok |-> FALSE, events |-> <<>>]
    ELSE updatePackagesHelper(packages, rpmsSources, o)

\* Deferred calls run when the function returns, last registered first; the
\* value each returns is dropped.  outs[i]: whether the i-th call to run succeeds.
RECURSIVE RunDefersFifo(_, _, _)
RunDefersFifo(ds, outs, r) ==
    IF ds = <<>> THEN [res |-> r, events |-> <<>>]
    ELSE LET d    == Head(ds)
             ok   == outs[1]
             rest == RunDefersFifo(Tail(ds), Tail(outs),
                                   IF ok THEN Effect(d, r) ELSE r)
         IN  [rest EXCEPT !.events = <<Ev(d, ok)>> \o rest.events]

RECURSIVE RunDefers(_, _, _)
RunDefers(ds, outs, r) ==
    IF ds = <<>> THEN [res |-> r, events |-> <<>>]
    ELSE LET d    == ds[Len(ds)]
             ok   == outs[1]
             rest == RunDefers(SubSeq(ds, 1, Len(ds) - 1), Tail(outs),
                               IF ok THEN Effect(d, r) ELSE r)
         IN  [rest EXCEPT !.events = <<Ev(d, ok)>> \o rest.events]

(***************************************************************************)
(* runScripts (customizeutils.go): bind-mounts the config directory into   *)
(* the chroot, runs each script, closes the mount.                         *)
(***************************************************************************)

\* Number of scripts in one sequence.
MaxScripts == 3

ScriptSet == {[path |-> "a.sh", args |-> ""], [path |-> "a.sh", args |-> "-x"],
              [path |-> "b.sh", args |-> ""]}

ScriptSeqs == UNION {[1..l -> ScriptSet] : l \in 0..MaxScripts}

configDirMountPathInChroot == "/_imageconfigs"

\* fmt.Sprintf("%s %s", filepath.Join(configDirMountPathInChroot, script.Path),
\* script.Args), as the pieces the command line is made of.
Command(script) ==
    <<configDirMountPathInChroot, "/", script.path>> \o <<" ", script.args>>

\* No runScripts call is under way.
ScrIdle ==
    scr = [scripts |-> <<>>, pc |-> "idle", i |-> 1, m |-> NoHandle,
           fs |-> [dir |-> "absent", mounted |-> FALSE], ran |-> <<>>,
           failed |-> 0, err |-> NoErr, flags |-> {}, calls |-> <<>>]

(***************************************************************************)
(* handleKernelCommandLine (customizeutils.go).  grub.cfg is a sequence of *)
(* symbols: "\tlinux", " ", "$kernelopts", "\n" and "x" for any other     *)
(* character.                                                              *)
(***************************************************************************)

\* Number of lines of grub.cfg.
MaxLines == 3

LineSet ==
    { <<>>, <<"x">>, <<" ", "$kernelopts">>,
      <<"\tlinux", " ", "x">>,
      <<"\tlinux", " ", "$kernelopts">>,
      <<"\tlinux", " ", " ", "$kernelopts">>,
      <<"\tlinux", " ", "x", " ", "$kernelopts", " ", "x">>,
      <<"\tlinux", " ", "x", " ", "$kernelopts", " ", "$kernelopts">>,
      <<"x", "\tlinux", " ", "x", " ", "$kernelopts">> }

\* The lines joined into a file, each line ended by a newline.
RECURSIVE JoinLines(_)
JoinLines(ls) ==
    IF ls = <<>> THEN <<>> ELSE Head(ls) \o <<"\n">> \o JoinLines(Tail(ls))

GrubFiles == {JoinLines(ls) : ls \in UNION {[1..l -> LineSet] : l \in 0..MaxLines}}

ExtraCommandLines == {<<>>, <<"a">>, <<"a", " ", "b">>}

\* linuxCommandLineRegex = `\tlinux .* (\$kernelopts)`: the ends q (the
\* space before the group) of the matches that start at p; `.` does not
\* match a newline.
GroupSpaces(f, p) ==
    {q \in (p + 2)..(Len(f) - 1) :
        /\ f[q] = " " /\ f[q + 1] = "$kernelopts"
        /\ \A j \in (p + 2)..(q - 1) : f[j] # "\n"}

MatchStarts(f) ==
    {p \in 1..(Len(f) - 1) :
        f[p] = "\tlinux" /\ f[p + 1] = " " /\ GroupSpaces(f, p) # {}}

SetMin(S) == CHOOSE x \in S : \A y \in S : x <= y

SetMax(S) == CHOOSE x \in S : \A y \in S : x >= y

\* regexp.FindStringSubmatchIndex: the leftmost match, `.*` as long as it
\* can be.  start and end are where group 1 starts and ends (match[2] and
\* match[3]), as 1-based positions: the group is f[start..end-1].
FindStringSubmatchIndex(f) ==
    IF MatchStarts(f) = {} THEN [found |-> FALSE, start |-> 0, end |-> 0]
    ELSE LET q == SetMax(GroupSpaces(f, SetMin(MatchStarts(f))))
         IN  [found |-> TRUE, start |-> q + 1, end |-> q + 2]

\* Variant that inserts after the captured group.
handleKernelCommandLineAfterGroup(extraCommandLine, file, readOk, writeOk) ==
    LET match == FindStringSubmatchIndex(file)
        new   == SubSeq(file, 1, match.end - 1) \o extraCommandLine \o <<" ">>
                     \o SubSeq(file, match.end, Len(file))
    IN  IF ~readOk THEN [file |-> file, err |-> {"read"}, wrote |-> FALSE]
        ELSE IF ~match.found THEN [file |-> file, err |-> {"nomatch"}, wrote |-> FALSE]
        ELSE IF ~writeOk THEN [file |-> <<>>, err |-> {"write"}, wrote |-> TRUE]
        ELSE [file |-> new, err |-> NoErr, wrote |-> TRUE]

\* handleKernelCommandLine on a grub.cfg with the given content.  A failed
\* os.WriteFile is taken to leave the file truncated.
handleKernelCommandLine(extraCommandLine, file, readOk, writeOk) ==
    LET match == FindStringSubmatchIndex(file)
        \* grub2ConfigFile[:insertIndex] + extraCommandLine + " " +
        \* grub2ConfigFile[insertIndex:]
        new   == SubSeq(file, 1, match.start - 1) \o extraCommandLine \o <<" ">>
                     \o SubSeq(file, match.start, Len(file))
    IN  IF ~readOk THEN [file |-> file, err |-> {"read"}, wrote |-> FALSE]
        ELSE IF ~match.found THEN [file |-> file, err |-> {"nomatch"}, wrote |-> FALSE]
        ELSE IF ~writeOk THEN [file |-> <<>>, err |-> {"write"}, wrote |-> TRUE]
        ELSE [file |-> new, err |-> NoErr, wrote |-> TRUE]

\* No handleKernelCommandLine call is under way.
KclIdle ==
    kcl = [before |-> <<>>, file |-> <<>>, extra |-> <<>>, pc |-> "idle",
           err |-> NoErr, wrote |-> FALSE]

(***************************************************************************)
(* Chage.  /etc/shadow is a sequence of entries, an entry the sequence of  *)
(* its colon-separated fields; a field is the empty string, the decimal    *)
(* text of a number, or other text.                                        *)
(***************************************************************************)

\* The empty field.
Blank == [kind |-> "empty", n |-> 0, s |-> ""]

\* fmt.Sprintf("%d", n): the field that strconv.ParseInt reads as n.
Num(n) == [kind |-> "num", n |-> n, s |-> ""]

\* A field that strconv.ParseInt rejects.
Txt(s) == [kind |-> "text", n |-> 0, s |-> s]

\* Number of entries of the shadow file.
MaxEntries == 3

\* int64, scaled down to IntWidth bits.
IntWidth == 5

MaxInt64 == 2 ^ (IntWidth - 1) - 1

\* Two's complement wrap-around of int64 arithmetic.
Wrap(x) == ((x + 2 ^ (IntWidth - 1)) % (2 ^ IntWidth)) - 2 ^ (IntWidth - 1)

LastChangeSet == {Blank, Txt("x"), Num(3), Num(MaxInt64)}

EntrySet ==
    {<<Txt(n), Txt("h"), lc, Num(0), Num(9), Num(7), Num(1), Num(4), Txt("r")>> :
        n \in {"u", "v"}, lc \in LastChangeSet}
        \cup {<<Txt(n), Txt("h"), Num(3), Num(0), Num(9), Num(7), Num(1), Num(4)>> :
                 n \in {"u", "v"}}
        \cup {<<Txt("u")>>}

ShadowFiles == UNION {[1..l -> EntrySet] : l \in 0..MaxEntries}

DaysSet == {-3, -2, -1, 0, 1, MaxInt64}

\* strings.HasPrefix(entry, username + ":")
HasUserPrefix(entry, username) == Len(entry) >= 2 /\ entry[1] = Txt(username)

\* The entries the loop of Chage stops at.
UserEntries(shadow, username) ==
    {n \in 1..Len(shadow) : HasUserPrefix(shadow[n], username)}

\* Variant of Chage that saves the entry before it has parsed last-change.
ChageWritesEarly(passwordExpirationInDays, username, shadow, now, readOk, writeOk) ==
    IF ~readOk THEN [shadow |-> shadow, err |-> {"read"}, wrote |-> FALSE]
    ELSE IF UserEntries(shadow, username) = {}
    THEN [shadow |-> shadow, err |-> {"notfound"}, wrote |-> FALSE]
    ELSE LET n      == SetMin(UserEntries(shadow, username))
             fields == shadow[n]
             save(f) == IF writeOk
                        THEN [shadow |-> [shadow EXCEPT ![n] = f], err |-> NoErr,
                              wrote |-> TRUE]
                        ELSE [shadow |-> <<>>, err |-> {"write"}, wrote |-> TRUE]
         IN  IF Len(fields) # 9
             THEN [shadow |-> shadow, err |-> {"fields"}, wrote |-> FALSE]
             ELSE IF passwordExpirationInDays = -1
             THEN save([i \in 1..9 |-> IF i >= 5 THEN Blank ELSE fields[i]])
             ELSE IF passwordExpirationInDays < -1
             THEN [shadow |-> shadow, err |-> {"days"}, wrote |-> FALSE]
             ELSE LET passwordChanged == IF fields[3] = Blank THEN Num(now) ELSE fields[3]
                  IN  IF passwordChanged.kind # "num"
                      THEN [shadow |-> [shadow EXCEPT ![n][3] = passwordChanged],
                            err |-> {"parse"}, wrote |-> TRUE]
                      ELSE save([fields EXCEPT
                                   ![3] = passwordChanged,
                                   ![8] = Num(Wrap(passwordChanged.n
                                                     + passwordExpirationInDays))])

\* Chage(passwordExpirationInDays, username) on a shadow file with the given
\* entries; now is the current day number.  A failed file.Write is taken to
\* leave the file truncated.
Chage(passwordExpirationInDays, username, shadow, now, readOk, writeOk) ==
    IF ~readOk THEN [shadow |-> shadow, err |-> {"read"}, wrote |-> FALSE]
    ELSE IF UserEntries(shadow, username) = {}
    THEN [shadow |-> shadow, err |-> {"notfound"}, wrote |-> FALSE]
    ELSE LET n      == SetMin(UserEntries(shadow, username))
             fields == shadow[n]
             \* shadow[n] = strings.Join(fields, ":"); file.Write(...)
             save(f) == IF writeOk
                        THEN [shadow |-> [shadow EXCEPT ![n] = f], err |-> NoErr,
                              wrote |-> TRUE]
                        ELSE [shadow |-> <<>>, err |-> {"write"}, wrote |-> TRUE]
         IN  IF Len(fields) # 9
             THEN [shadow |-> shadow, err |-> {"fields"}, wrote |-> FALSE]
             ELSE IF passwordExpirationInDays = -1
             THEN save([i \in 1..9 |-> IF i >= 5 THEN Blank ELSE fields[i]])
             ELSE IF passwordExpirationInDays < -1
             THEN [shadow |-> shadow, err |-> {"days"}, wrote |-> FALSE]
             ELSE LET passwordChanged == IF fields[3] = Blank THEN Num(now) ELSE fields[3]
                  IN  IF passwordChanged.kind # "num"
                      THEN \* strconv.ParseInt fails
                           [shadow |-> shadow, err |-> {"parse"}, wrote |-> FALSE]
                      ELSE \* passwordAge + passwordExpirationInDays, in int64
                           save([fields EXCEPT
                                   ![3] = passwordChanged,
                                   ![8] = Num(Wrap(passwordChanged.n
                                                     + passwordExpirationInDays))])

\* No Chage call is under way.
ShdIdle ==
    shd = [before |-> <<>>, file |-> <<>>, days |-> 0, name |-> "u", now |-> 0,
           pc |-> "idle", err |-> NoErr, wrote |-> FALSE]

(***************************************************************************)
(* Grub tokenizer (grubConfigTokenizer).  The content is a sequence of     *)
(* characters; the scanner position idx is the number of characters        *)
(* consumed.                                                               *)
(***************************************************************************)

\* Length of the tokenized content.
MaxContentLen == 4

\* The characters the contents are made of: one of each class the
\* tokenizer tells apart.
Alphabet == {"{", "}", "\n", " ", "#", "\"", "'", "$", "\\", "a"}

Contents == UNION {[1..l -> Alphabet] : l \in 0..MaxContentLen}

Metacharacters == {"{", "}", "|", "&", ";", "<", ">"}

Spaces == {" ", "\t"}

\* (c >= 'A' && c <= 'Z') || (c >= 'a' && c <= 'z') || (c >= '0' && c <= '9') || c == '_'
NameChars == {"a", "z", "A", "Z", "0", "9", "_"}

\* scanner.Peek(): the next character, or "" at end-of-file.
scannerPeek(t) == IF t.idx < Len(t.content) THEN t.content[t.idx + 1] ELSE ""

Eof(t) == t.idx >= Len(t.content)

\* scanner.Next(): consumes one character.
scannerNext(t) == IF Eof(t) THEN t ELSE [t EXCEPT !.idx = t.idx + 1]

\* scanner.Line() and scanner.Col() at position i, both counted from 1.
LineAt(content, i) == 1 + Cardinality({j \in 1..i : content[j] = "\n"})

ColAt(content, i) ==
    LET nl == {j \in 1..i : content[j] = "\n"}
    IN  IF nl = {} THEN i + 1 ELSE i + 1 - SetMax(nl)

NoTkErr == [kind |-> "none", line |-> 0, col |-> 0]

\* fmt.Errorf("... (%d:%d)", line, col) for the position i
ErrorAt(kind, content, i) ==
    [kind |-> kind, line |-> LineAt(content, i), col |-> ColAt(content, i)]

TokenTypeOf(c) ==
    CASE c = "{" -> "LBRACE" [] c = "}" -> "RBRACE" [] c = "|" -> "BAR"
      [] c = "&" -> "AND" [] c = ";" -> "SEMICOLON" [] c = "<" -> "LT"
      [] c = ">" -> "GT" [] c = "\n" -> "NEWLINE"

\* Variant of newToken whose RawContent misses the last character.
newTokenShortRaw(content, locStart, locEnd, tokenType) ==
    [type |-> tokenType, start |-> locStart, end |-> locEnd,
     raw |-> SubSeq(content, locStart + 1, locEnd - 1), subWords |-> <<>>]

\* newToken: RawContent is content[locStart.Index:locEnd.Index]
newToken(content, locStart, locEnd, tokenType) ==
    [type |-> tokenType, start |-> locStart, end |-> locEnd,
     raw |-> SubSeq(content, locStart + 1, locEnd), subWords |-> <<>>]

newSubWord(content, locStart, locEnd, subWordType, value) ==
    [type |-> subWordType, start |-> locStart, end |-> locEnd,
     raw |-> SubSeq(content, locStart + 1, locEnd), value |-> value]

\* The tokenizer before TokenizeGrubConfig is called on content.
NewTokenizer(content) ==
    [content |-> content, idx |-> 0, pc |-> "tokenize", ret |-> "word",
     tokens |-> <<>>, subWords |-> <<>>, tokStart |-> 0, subStart |-> 0,
     varStart |-> 0, sb |-> <<>>, notFirst |-> FALSE, uqNotFirst |-> FALSE,
     usesBraces |-> FALSE, err |-> NoTkErr]

TkIdle == tk = [NewTokenizer(<<>>) EXCEPT !.pc = "idle"]

\* A sub-parser returns e to parseWord: on an error the loop is left, the
\* WORD token is appended with the sub-words seen so far and tokenize
\* returns the error; otherwise notFirst = true and the loop goes on.
ReturnToWord(t, e) ==
    IF e.kind # "none"
    THEN [t EXCEPT !.tokens = Append(t.tokens,
                      [newToken(t.content, t.tokStart, t.idx, "WORD")
                          EXCEPT !.subWords = t.subWords]),
                   !.subWords = <<>>, !.err = e, !.pc = "done"]
    ELSE [t EXCEPT !.notFirst = TRUE, !.pc = "word"]

\* parseVariableExpansion returns e to its caller: parseWord, or
\* parseDoubleQuotedString, which restarts its string after the expansion.
ReturnFromVar(t, e) ==
    IF t.ret = "word" \/ e.kind # "none" THEN ReturnToWord(t, e)
    ELSE [t EXCEPT !.subStart = t.idx, !.sb = <<>>, !.pc = "dquote"]

\* The call parseVariableExpansion(subWordType) up to its loop: the $ is
\* consumed, and a { that follows it.
EnterVar(t, ret) ==
    LET t1 == scannerNext(t)
        usesBraces == ~Eof(t1) /\ scannerPeek(t1) = "{"
        t2 == IF usesBraces THEN scannerNext(t1) ELSE t1
    IN  [t2 EXCEPT !.varStart = t.idx, !.usesBraces = usesBraces, !.sb = <<>>,
                   !.ret = ret, !.pc = "var"]

\* No function call is under check.
CallIdle == call = [fn |-> "none", pc |-> "idle"]

UtilIdle == ScrIdle /\ KclIdle /\ ShdIdle /\ TkIdle /\ CallIdle

\* Variant of runScripts that goes on with the next script after a failure.
runScriptsKeepsGoing(step, ok) ==
    CASE step = "newMount" -> IF ok THEN "loop" ELSE "done"
      [] step = "script"   -> "loop"
      [] step = "close"    -> "deferred"
      [] step = "deferred" -> "done"

\* Variant of runScripts without the deferred mount.Close().
runScriptsNoDefer(step, ok) ==
    CASE step = "newMount" -> IF ok THEN "loop" ELSE "done"
      [] step = "script"   -> IF ok THEN "loop" ELSE "done"
      [] step = "close"    -> "done"
      [] step = "deferred" -> "done"

\* runScripts: where control goes after a step that returned ok / an error.
\* "loop" is the head of the for loop, "deferred" the deferred mount.Close().
runScripts(step, ok) ==
    CASE step = "newMount" -> IF ok THEN "loop" ELSE "done"
      [] step = "script"   -> IF ok THEN "loop" ELSE "deferred"
      [] step = "close"    -> "deferred"
      [] step = "deferred" -> "done"

(***************************************************************************)
(* SpecMount: a caller creates a handle with NewMount and closes it, any   *)
(* number of times; a closed handle may be replaced by a new one.          *)
(***************************************************************************)
NoRet == [op |-> "none", makeDir |-> FALSE, err |-> NoErr, cleanupErr |-> NoErr,
          calls |-> <<>>, handle |-> FALSE, dirBefore |-> "absent",
          before |-> NoHandle, afterOk |-> FALSE]

\* No mount handle exists and none has been asked for.
MountIdle ==
    /\ mnt = NoHandle
    /\ mfs = [dir |-> "absent", mounted |-> FALSE]
    /\ mret = NoRet
    /\ mhist = [n |-> 0, closedOk |-> FALSE, ownedDir |-> FALSE]

InitMount ==
    /\ mnt = NoHandle
    /\ mfs \in [dir : DirStates, mounted : {FALSE}]
    /\ mret = NoRet
    /\ mhist = [n |-> 0, closedOk |-> FALSE, ownedDir |-> FALSE]
    /\ RpmIdle
    /\ OrchIdle
    /\ UtilIdle

\* NewMount(source, target, fstype, flags, data, makeAndDeleteDir)
MountNew ==
    /\ mhist.n < MaxMountOps
    /\ ~mnt.isMounted /\ ~mnt.dirCreated /\ ~mfs.mounted
    /\ \E makeAndDeleteDir \in BOOLEAN, mkdirOk \in BOOLEAN, mountOk \in BOOLEAN :
         \E r \in {NewMount("t", mfs, makeAndDeleteDir, mkdirOk, mountOk)} :
             /\ mnt' = r.m
             /\ mfs' = r.fs
             /\ mret' = [op |-> "NewMount", makeDir |-> makeAndDeleteDir, err |-> r.err,
                         cleanupErr |-> r.cleanupErr, calls |-> r.calls,
                         handle |-> (r.m # NoHandle), dirBefore |-> mfs.dir,
                         before |-> NoHandle, afterOk |-> FALSE]
             /\ mhist' = [n |-> mhist.n + 1, closedOk |-> FALSE,
                          ownedDir |-> r.m.dirCreated]
    /\ UNCHANGED <<rpmVars, orchVars, utilVars>>

\* m.Close()
MountClose ==
    /\ mhist.n < MaxMountOps
    /\ mnt # NoHandle
    /\ \E unmountOk \in BOOLEAN :
         \E r \in {Close(mnt, mfs, unmountOk)} :
             /\ mnt' = r.m
             /\ mfs' = r.fs
             /\ mret' = [op |-> "Close", makeDir |-> FALSE, err |-> r.err,
                         cleanupErr |-> NoErr, calls |-> r.calls, handle |-> TRUE,
                         dirBefore |-> mfs.dir, before |-> mnt,
                         afterOk |-> mhist.closedOk]
             /\ mhist' = [mhist EXCEPT !.n = mhist.n + 1,
                                        !.closedOk = mhist.closedOk \/ r.err = NoErr]
    /\ UNCHANGED <<rpmVars, orchVars, utilVars>>

NextMount == MountNew \/ MountClose

SpecMount == InitMount /\ [][NextMount]_vars

InSeq(x, s) == \E i \in 1..Len(s) : s[i] = x

\* C2: once Close has returned success on a handle, every later Close on
\* that handle makes no unmount and no directory removal and returns success.
C2_CloseIdempotent ==
    (mret.op = "Close" /\ mret.afterOk) => (mret.calls = <<>> /\ mret.err = NoErr)

\* A second Close after a successful Close of a handle that was mounted and
\* owned its directory.
C2_Witness ==
    /\ mret.op = "Close" /\ mret.afterOk
    /\ mhist.ownedDir
    /\ mfs.dir = "absent" /\ ~mfs.mounted

\* C3: NewMount with makeAndDeleteDir = TRUE whose mount system call fails
\* returns an error and no handle, leaves nothing mounted at the target, and
\* the directory it created is gone again.
MountCallFailed ==
    /\ mret.op = "NewMount" /\ mret.makeDir
    /\ InSeq("mount", mret.calls) /\ "mount" \in mret.err

C3_NewMountFailureCleansUp ==
    MountCallFailed =>
        /\ ~mret.handle /\ mnt = NoHandle
        /\ mret.err # NoErr
        /\ ~mfs.mounted
        /\ (mret.dirBefore = "absent" => mfs.dir = "absent")

C3_Witness == MountCallFailed /\ mret.dirBefore = "absent" /\ mfs.dir = "absent"

\* C4 as claimed: a Close whose unmount fails on a handle that owns its
\* directory still attempts the directory removal.
C4_BothStepsAttempted ==
    (mret.op = "Close" /\ mret.before.dirCreated /\ "unmount" \in mret.err)
        => InSeq("remove", mret.calls)

\* C4 as the code has it: Close stops at the first step that fails.  When the
\* unmount fails the removal is not attempted, the error is the unmount error
\* alone and the handle is left as it was; the removal is attempted exactly
\* when the handle owns its directory and the unmount succeeded or was not needed.
C4_CloseStopsAtFirstFailure ==
    mret.op = "Close" =>
        /\ ("unmount" \in mret.err =>
               /\ ~InSeq("remove", mret.calls)
               /\ mret.err = {"unmount"}
               /\ mnt = mret.before)
        /\ (InSeq("remove", mret.calls) <=>
               (mret.before.dirCreated /\ "unmount" \notin mret.err))
        /\ Cardinality(mret.err) <= 1

C4_Witness ==
    /\ mret.op = "Close" /\ mret.before.dirCreated /\ mret.before.isMounted
    /\ mret.err = {"unmount"} /\ mnt.dirCreated /\ mfs.mounted

(***************************************************************************)
(* SpecRpm: a caller composes the RPM sources once and then closes the     *)
(* handle, possibly several times (updatePackagesHelper defers close and   *)
(* also calls it on the success path).                                     *)
(***************************************************************************)
InitRpm ==
    /\ MountIdle
    /\ rpm = NoRpm
    /\ \E parentExists \in BOOLEAN, resolvDir \in {"absent", "empty"} :
         rfs = [parent |-> parentExists, repoFile |-> FALSE,
                t |-> [k \in 1..MaxRpmMounts |->
                         [dir |-> IF k = 1 THEN resolvDir ELSE "absent",
                          mounted |-> FALSE]]]
    /\ rret = [op |-> "none", err |-> NoErr, cleanupErr |-> NoErr, events |-> <<>>,
               closeRan |-> FALSE, closeErr |-> NoErr, handle |-> FALSE]
    /\ rhist = [created |-> FALSE, acquired |-> 0]
    /\ OrchIdle
    /\ UtilIdle

\* The ways the host can make a run of the helper fail: no failure, or one
\* failing step (for a mount: MkdirAll or unix.Mount; for the save: with or
\* without a partial file left behind).
FailSet(steps) ==
    {[at |-> 0, how |-> "mount", partial |-> FALSE]}
        \cup UNION {[at : {i},
                     how : IF steps[i] = "mount" THEN {"mkdir", "mount"} ELSE {"mount"},
                     partial : IF steps[i] = "save" THEN BOOLEAN ELSE {FALSE}]
                    : i \in 1..Len(steps)}

\* The sets of mounts, out of n, that the host refuses to unmount.
BusySets(n) == {{}} \cup {{k} : k \in 1..n} \cup {1..n}

\* mounts, err := mountRpmSources(buildDir, imageChroot, rpmsSources, useBaseImageRpmRepos)
RpmMount ==
    /\ rpm.state = "none" /\ rret.op = "none"
    /\ \E rpmsSources \in SourceSeqs, useBaseImageRpmRepos \in BOOLEAN :
       \E fail \in FailSet(HelperSteps(rpmsSources, useBaseImageRpmRepos)) :
       \E h \in {mountRpmSourcesHelper(rfs, rpmsSources, useBaseImageRpmRepos, fail)} :
             \E busy \in (IF h.err = NoErr THEN {{}} ELSE BusySets(Len(h.m.mounts))),
                rmRepoOk \in (IF h.err # NoErr /\ h.m.allReposConfigFilePath
                              THEN BOOLEAN ELSE {TRUE}) :
               \E r \in {mountRpmSources(rfs, rpmsSources, useBaseImageRpmRepos,
                                         fail, busy, rmRepoOk)} :
                   /\ rpm' = r.handle
                   /\ rfs' = r.fs
                   /\ rret' = [op |-> "mount", err |-> r.err, cleanupErr |-> r.cleanupErr,
                               events |-> r.events, closeRan |-> r.closeRan,
                               closeErr |-> r.cleanupErr, handle |-> (r.handle # NoRpm)]
                   /\ rhist' = [created |-> r.built.rpmsMountParentDirCreated,
                                acquired |-> Len(r.built.mounts)]
    /\ UNCHANGED <<mountVars, orchVars, utilVars>>

\* mounts.close()
RpmClose ==
    /\ rpm.state = "live"
    /\ \E busy \in BusySets(Len(rpm.mounts)), rmRepoOk \in BOOLEAN :
         \E r \in {rpmClose(rpm, rfs, busy, rmRepoOk)} :
             /\ rpm' = r.m
             /\ rfs' = r.fs
             /\ rret' = [op |-> "close", err |-> r.err, cleanupErr |-> NoErr,
                         events |-> r.events, closeRan |-> TRUE,
                         closeErr |-> r.err, handle |-> TRUE]
             /\ UNCHANGED rhist
    /\ UNCHANGED <<mountVars, orchVars, utilVars>>

NextRpm == RpmMount \/ RpmClose

SpecRpm == InitRpm /\ [][NextRpm]_vars

\* Position of event e in the event list ev (0 when it is missing).
PosOf(e, ev) == IF InSeq(e, ev) THEN CHOOSE i \in 1..Len(ev) : ev[i] = e ELSE 0

CloseEvents(ev) == {i \in 1..Len(ev) : ev[i][1] = "close"}

\* What every run of close does first and last: allrepos.repo is deleted
\* before anything else, and the parent directory is removed, if at all,
\* after every mount has been closed.
RepoFirstParentLast(ev) ==
    /\ ev[1] = <<"rmRepo", 0>>
    /\ \A i \in 1..Len(ev) : ev[i][1] = "rmParent" => i = Len(ev)
    /\ \A k \in 1..rhist.acquired : InSeq(<<"close", k>>, ev)

\* C5 as claimed: close deletes allrepos.repo first, closes the mounts in the
\* reverse of their acquisition order, and removes the parent directory last.
C5_CloseReverseOrder ==
    rret.closeRan =>
        /\ RepoFirstParentLast(rret.events)
        /\ \A i, j \in CloseEvents(rret.events) :
              i < j => rret.events[i][2] > rret.events[j][2]

\* C5 as the code has it: close deletes allrepos.repo first, closes the
\* mounts in the order in which they were acquired, and removes the parent
\* directory last (when no earlier step failed).
C5_CloseAcquisitionOrder ==
    rret.closeRan =>
        /\ RepoFirstParentLast(rret.events)
        /\ \A i, j \in CloseEvents(rret.events) :
              i < j => rret.events[i][2] < rret.events[j][2]

C5_Witness ==
    /\ rret.op = "close" /\ rhist.acquired >= 3
    /\ rret.events[Len(rret.events)] = <<"rmParent", 0>>
    /\ ~rfs.parent

\* C6 as claimed: once close has returned, the parent directory is gone.
C6_ParentGoneAfterClose ==
    rret.closeRan => ~rfs.parent

\* C6 as the code has it: once close has returned success on a handle that
\* created the parent directory, the parent directory does not exist.
C6_ParentGoneAfterCleanClose ==
    (rret.closeRan /\ rret.closeErr = NoErr /\ rhist.created) => ~rfs.parent

C6_Witness ==
    /\ rret.op = "close" /\ rret.err = NoErr /\ rhist.created
    /\ rhist.acquired >= 2 /\ InSeq(<<"rmParent", 0>>, rret.events)

\* C7: a mountRpmSources that fails after creating the parent directory
\* returns no handle and the error of the failing step; it has closed every
\* mount it had acquired and, unless that cleanup itself failed (which is only
\* logged), nothing it mounted or created is left.
HelperErrors == {"mkdir", "mount", "unknownType", "save", "type", "prep", "append", "baseRepos"}

NothingLeft ==
    /\ ~rfs.parent /\ ~rfs.repoFile
    /\ \A k \in 1..MaxRpmMounts : ~rfs.t[k].mounted
    /\ \A k \in 2..MaxRpmMounts : rfs.t[k].dir = "absent"

C7_FailedMountCleansUp ==
    (rret.op = "mount" /\ rret.err # NoErr /\ rhist.created) =>
        /\ ~rret.handle /\ rpm = NoRpm
        /\ rret.err \subseteq HelperErrors
        /\ \A k \in 1..rhist.acquired : InSeq(<<"close", k>>, rret.events)
        /\ (rret.cleanupErr = NoErr => NothingLeft)
        /\ (rret.cleanupErr # NoErr => rret.err \cap rret.cleanupErr = {})

C7_Witness ==
    /\ rret.op = "mount" /\ rret.err # NoErr /\ rhist.created
    /\ rhist.acquired >= 2 /\ rret.cleanupErr = NoErr /\ NothingLeft

(***************************************************************************)
(* Spec: one invocation of CustomizeImage, step by step.  The host decides *)
(* the outcome of every step but the two validations, which the arguments  *)
(* decide.                                                                 *)
(***************************************************************************)
Init ==
    /\ MountIdle
    /\ RpmIdle
    /\ UtilIdle
    /\ cfg \in [fmtOk : BOOLEAN, cfgValid : BOOLEAN, toolsBin : BOOLEAN,
                packages : BOOLEAN, rpmsSources : BOOLEAN]
    /\ pc = "validateFormat"
    /\ trace = <<>>
    /\ res = NoRes
    /\ err = FALSE
    /\ defers = <<>>
    /\ cidefers = <<>>
    /\ result = "none"

\* A step in the body of CustomizeImage.
CiStep(step, outcomes) ==
    /\ pc = step
    /\ \E ok \in outcomes :
         LET nxt == CustomizeImage(step, ok, cfg.toolsBin)
         IN  /\ trace' = Append(trace, Ev(step, ok))
             /\ res' = IF ok THEN Effect(step, res) ELSE res
             /\ err' = (nxt = "return" /\ ~ok)
             /\ pc' = IF nxt = "return" THEN "ciReturn" ELSE nxt
    \* defer toolsConnection.Close() is registered before ConnectLoopback
    /\ cidefers' = IF step = "toolsLoopback" THEN Append(cidefers, "toolsClose")
                   ELSE cidefers
    /\ UNCHANGED <<cfg, defers, result, mountVars, rpmVars, utilVars>>

\* A step in the body of customizeImageHelper, before doCustomizations.
HelperBodyStep(step) ==
    /\ pc = step
    /\ \E ok \in BOOLEAN :
         LET nxt == customizeImageHelper(step, ok)
         IN  /\ trace' = Append(trace, Ev(step, ok))
             /\ res' = IF ok THEN Effect(step, res) ELSE res
             /\ err' = ~ok
             /\ pc' = IF nxt = "return" THEN "helperReturn" ELSE nxt
             /\ defers' = IF ok /\ step = "attachLoopback"
                          THEN Append(defers, "detachLoopback")
                          ELSE IF ok /\ step = "chrootInit"
                          THEN Append(defers, "chrootClose")
                          ELSE defers
    /\ UNCHANGED <<cfg, cidefers, result, mountVars, rpmVars, utilVars>>

\* A step of doCustomizations.
DcStep(step) ==
    /\ pc = step
    /\ \E ok \in BOOLEAN :
         LET nxt == doCustomizations(step, ok)
         IN  /\ trace' = Append(trace, Ev(step, ok))
             /\ res' = IF ok THEN Effect(step, res) ELSE res
             /\ err' = ~ok
             /\ pc' = IF nxt = "return" THEN "helperReturn" ELSE nxt
    /\ UNCHANGED <<cfg, defers, cidefers, result, mountVars, rpmVars, utilVars>>

\* The updatePackages step of doCustomizations.
UpdatePackages ==
    /\ pc = "updatePackages"
    /\ \E o \in [collect : BOOLEAN, mount : BOOLEAN, install : BOOLEAN,
                  close : BOOLEAN, deferred : BOOLEAN] :
         \E r \in {updatePackages(cfg.packages, cfg.rpmsSources, o)} :
             LET nxt == doCustomizations("updatePackages", r.ok)
             IN  /\ trace' = trace \o r.events \o <<Ev("updatePackages", r.ok)>>
                 /\ res' = ApplyEvents(r.events, res)
                 /\ err' = ~r.ok
                 /\ pc' = IF nxt = "return" THEN "helperReturn" ELSE nxt
    /\ UNCHANGED <<cfg, defers, cidefers, result, mountVars, rpmVars, utilVars>>

ValidateFormat == CiStep("validateFormat", {cfg.fmtOk})
ValidateConfig == CiStep("validateConfig", {cfg.cfgValid})
MkdirBuildDir == CiStep("mkdirBuildDir", BOOLEAN)
ToolsLoopback == CiStep("toolsLoopback", BOOLEAN)
ToolsChroot == CiStep("toolsChroot", BOOLEAN)
ConvertToRaw == CiStep("convertToRaw", BOOLEAN)
CustomizePartitions == CiStep("customizePartitions", BOOLEAN)
AttachLoopback == HelperBodyStep("attachLoopback")
FindPartitions == HelperBodyStep("findPartitions")
ChrootInit == HelperBodyStep("chrootInit")
OverrideResolvConf == DcStep("overrideResolvConf")
UpdateHostname == DcStep("updateHostname")
CopyAdditionalFiles == DcStep("copyAdditionalFiles")
PostInstallScripts == DcStep("postInstallScripts")
KernelCommandLine == DcStep("kernelCommandLine")
FinalizeScripts == DcStep("finalizeScripts")
DeleteResolvConf == DcStep("deleteResolvConf")
ConvertOutput == CiStep("convertOutput", BOOLEAN)

\* customizeImageHelper returns: its deferred calls run, then CustomizeImage
\* goes on to the output conversion or returns the error.
HelperReturn ==
    /\ pc = "helperReturn"
    /\ \E outs \in [1..Len(defers) -> BOOLEAN] :
         LET r == RunDefers(defers, outs, res)
         IN  /\ trace' = trace \o r.events
             /\ res' = r.res
    /\ defers' = <<>>
    /\ LET nxt == CustomizeImage("customizeImageHelper", ~err, cfg.toolsBin)
       IN  pc' = IF nxt = "return" THEN "ciReturn" ELSE nxt
    /\ UNCHANGED <<cfg, err, cidefers, result, mountVars, rpmVars, utilVars>>

\* CustomizeImage returns: its deferred calls run.
CiReturn ==
    /\ pc = "ciReturn"
    /\ \E outs \in [1..Len(cidefers) -> BOOLEAN] :
         LET r == RunDefers(cidefers, outs, res)
         IN  /\ trace' = trace \o r.events
             /\ res' = r.res
    /\ cidefers' = <<>>
    /\ pc' = "done"
    /\ result' = IF err THEN "err" ELSE "ok"
    /\ UNCHANGED <<cfg, err, defers, mountVars, rpmVars, utilVars>>

Next ==
    \/ ValidateFormat \/ ValidateConfig \/ MkdirBuildDir
    \/ ToolsLoopback \/ ToolsChroot \/ ConvertToRaw \/ CustomizePartitions
    \/ AttachLoopback \/ FindPartitions \/ ChrootInit
    \/ OverrideResolvConf \/ UpdatePackages \/ UpdateHostname
    \/ CopyAdditionalFiles \/ PostInstallScripts \/ KernelCommandLine
    \/ FinalizeScripts \/ DeleteResolvConf
    \/ HelperReturn \/ ConvertOutput \/ CiReturn

Spec == Init /\ [][Next]_vars

Ran(step) == \E i \in 1..Len(trace) : trace[i].step = step

PosStep(step) == CHOOSE i \in 1..Len(trace) : trace[i].step = step

HelperReturned == pc \in {"convertOutput", "ciReturn", "done"}

Validated ==
    /\ InSeq(Ev("validateFormat", TRUE), trace)
    /\ InSeq(Ev("validateConfig", TRUE), trace)

C8_NoSideEffectBeforeValidation ==
    /\ ~Validated =>
          /\ res = NoRes
          /\ \A i \in 1..Len(trace) :
                trace[i].step \in {"validateFormat", "validateConfig"}
    /\ ((~cfg.fmtOk \/ ~cfg.cfgValid) /\ pc = "done") => result = "err"

C8_Witness ==
    /\ pc = "done" /\ cfg.fmtOk /\ ~cfg.cfgValid
    /\ result = "err" /\ res = NoRes
    /\ Ran("validateConfig")

\* C9: doCustomizations runs override resolv.conf, install packages, write
\* hostname, copy additional files, post-install scripts, kernel command line,
\* finalize-image scripts, delete resolv.conf, in this order, and a step
\* starts only after every earlier step returned success.
C9Order == <<"overrideResolvConf", "updatePackages", "updateHostname",
             "copyAdditionalFiles", "postInstallScripts", "kernelCommandLine",
             "finalizeScripts", "deleteResolvConf">>

IsDcEvent(e) == InSeq(e.step, C9Order)

C9_FixedOrder ==
    LET dc == SelectSeq(trace, IsDcEvent)
    IN  /\ Len(dc) <= Len(C9Order)
        /\ \A i \in 1..Len(dc) :
              /\ dc[i].step = C9Order[i]
              /\ (i < Len(dc) => dc[i].ok)

C9_Witness ==
    /\ Len(SelectSeq(trace, IsDcEvent)) = 8
    /\ \A i \in 1..Len(trace) : IsDcEvent(trace[i]) => trace[i].ok

\* C10: when a customization step after the resolv.conf override fails, the
\* overridden /etc/resolv.conf is still deleted before the invocation ends.
C10_ResolvConfDeletedOnFailure ==
    (pc = "done" /\ InSeq(Ev("overrideResolvConf", TRUE), trace))
        => (Ran("deleteResolvConf") /\ ~res.resolv)

LaterSteps == {"updateHostname", "copyAdditionalFiles", "postInstallScripts",
               "kernelCommandLine", "finalizeScripts", "deleteResolvConf"}

RpmSourcesMounted == InSeq(Ev("mountRpmSources", TRUE), trace)

\* C11 as stated: the RPM sources stay mounted through the later steps and
\* are closed only after the finalize-image scripts and the deletion of
\* resolv.conf, immediately before the image connection is closed.
C11_RpmSourcesClosedLast ==
    (HelperReturned /\ RpmSourcesMounted) =>
        /\ \A i \in 1..Len(trace) :
              trace[i].step = "rpmSourcesClose" =>
                 \A j \in 1..Len(trace) : trace[j].step \in LaterSteps => j < i
        /\ \E i \in 1..(Len(trace) - 1) :
              trace[i].step = "rpmSourcesClose" /\ trace[i + 1].step = "chrootClose"

\* C11, amended: the RPM sources are closed inside the package step, on every
\* exit path of it after a successful mount: every close comes before the
\* step returns and before every later step, and nothing stays mounted
\* unless a close call itself failed.
C11_RpmSourcesClosedInPackageStep ==
    RpmSourcesMounted =>
        /\ \E i \in 1..Len(trace) : trace[i].step = "rpmSourcesClose"
        /\ \A i \in 1..Len(trace) :
              trace[i].step = "rpmSourcesClose" =>
                 /\ i < PosStep("updatePackages")
                 /\ \A j \in 1..Len(trace) :
                       trace[j].step \in LaterSteps \cup {"chrootClose"} => i < j
        /\ (res.rpmSources => InSeq(Ev("rpmSourcesClose", FALSE), trace))

\* Packages were installed from mounted sources and the whole invocation
\* went through, finalize-image scripts included.
C11_Witness ==
    /\ pc = "done" /\ result = "ok" /\ RpmSourcesMounted
    /\ InSeq(Ev("tdnfInstall", TRUE), trace)
    /\ InSeq(Ev("finalizeScripts", TRUE), trace)
    /\ ~res.rpmSources

\* The steps whose failure makes customizeImageHelper return an error.
HelperStepNames == {"attachLoopback", "findPartitions", "chrootInit"}
                       \cup {DcSteps[i] : i \in 1..Len(DcSteps)}

HelperFailed ==
    \E i \in 1..Len(trace) : trace[i].step \in HelperStepNames /\ ~trace[i].ok

C12_WitnessFailure ==
    /\ pc = "done" /\ InSeq(Ev("finalizeScripts", FALSE), trace)
    /\ result = "err" /\ ~res.output

\* C13 as stated: no step failure is swallowed; when ConnectChroot on the
\* tools squashfs fails, CustomizeImage returns an error and neither converts
\* nor customizes the image.
C13_NoFailureSwallowed ==
    (pc = "done" /\ InSeq(Ev("toolsChroot", FALSE), trace)) =>
        (result = "err" /\ ~Ran("convertToRaw") /\ ~Ran("attachLoopback"))

(***************************************************************************)
(* SpecScripts: one call of runScripts, step by step.                      *)
(***************************************************************************)
InitScripts ==
    /\ MountIdle
    /\ RpmIdle
    /\ OrchIdle
    /\ scr \in [scripts : ScriptSeqs, pc : {"newMount"}, i : {1}, m : {NoHandle},
                fs : [dir : {"absent", "empty"}, mounted : {FALSE}],
                ran : {<<>>}, failed : {0}, err : {NoErr}, flags : {{}},
                calls : {<<>>}]
    /\ KclIdle
    /\ ShdIdle
    /\ TkIdle
    /\ CallIdle

\* mount, err := safemount.NewMount(baseConfigPath, configDirMountPath, ..., true)
ScrNewMount ==
    /\ scr.pc = "newMount"
    /\ \E mkdirOk \in BOOLEAN, mountOk \in BOOLEAN :
         \E r \in {NewMount(configDirMountPathInChroot, scr.fs, TRUE, mkdirOk, mountOk)} :
             scr' = [scr EXCEPT !.m = r.m, !.fs = r.fs, !.err = r.err,
                                !.flags = {"MS_BIND", "MS_RDONLY"},
                                !.calls = r.calls,
                                !.pc = runScripts("newMount", r.err = NoErr)]
    /\ UNCHANGED <<mountVars, rpmVars, orchVars, kcl, shd, tk, call>>

\* One turn of the loop: imageChroot.UnsafeRun of the script's command.
ScrRunScript ==
    /\ scr.pc = "loop" /\ scr.i <= Len(scr.scripts)
    /\ \E ok \in BOOLEAN :
         scr' = [scr EXCEPT !.ran = Append(scr.ran, Command(scr.scripts[scr.i])),
                            !.calls = Append(scr.calls, "script"),
                            !.i = scr.i + 1,
                            !.failed = IF ok \/ scr.failed # 0 THEN scr.failed
                                       ELSE scr.i,
                            !.err = IF ok THEN NoErr ELSE {"script"},
                            !.pc = runScripts("script", ok)]
    /\ UNCHANGED <<mountVars, rpmVars, orchVars, kcl, shd, tk, call>>

\* err = mount.Close() after the loop
ScrClose ==
    /\ scr.pc = "loop" /\ scr.i > Len(scr.scripts)
    /\ \E unmountOk \in BOOLEAN :
         \E r \in {Close(scr.m, scr.fs, unmountOk)} :
             scr' = [scr EXCEPT !.m = r.m, !.fs = r.fs, !.err = r.err,
                                !.calls = scr.calls \o r.calls,
                                !.pc = runScripts("close", r.err = NoErr)]
    /\ UNCHANGED <<mountVars, rpmVars, orchVars, kcl, shd, tk, call>>

\* defer mount.Close(): runs on return, its result is dropped
ScrDeferredClose ==
    /\ scr.pc = "deferred"
    /\ \E unmountOk \in BOOLEAN :
         \E r \in {Close(scr.m, scr.fs, unmountOk)} :
             scr' = [scr EXCEPT !.m = r.m, !.fs = r.fs,
                                !.calls = scr.calls \o r.calls,
                                !.pc = runScripts("deferred", TRUE)]
    /\ UNCHANGED <<mountVars, rpmVars, orchVars, kcl, shd, tk, call>>

NextScripts == ScrNewMount \/ ScrRunScript \/ ScrClose \/ ScrDeferredClose

SpecScripts == InitScripts /\ [][NextScripts]_vars

\* C14: runScripts executes the scripts in declared order, each as
\* "/_imageconfigs/<path> <args>"; once a script fails no later script is
\* executed and the failure is returned.
C14_ScriptsInOrderStopAtFailure ==
    /\ Len(scr.ran) <= Len(scr.scripts)
    /\ \A k \in 1..Len(scr.ran) :
          scr.ran[k] = <<"/_imageconfigs", "/", scr.scripts[k].path, " ",
                         scr.scripts[k].args>>
    /\ scr.failed # 0 =>
          /\ Len(scr.ran) = scr.failed
          /\ scr.pc = "done" => scr.err = {"script"}
    /\ (scr.pc = "done" /\ scr.err = NoErr) => Len(scr.ran) = Len(scr.scripts)

\* The second of three scripts failed and the call has returned.
C14_Witness ==
    /\ scr.pc = "done" /\ Len(scr.scripts) = 3 /\ scr.failed = 2
    /\ Len(scr.ran) = 2 /\ scr.err = {"script"}

(***************************************************************************)
(* SpecGrub: doCustomizations reaches its kernel command line step with    *)
(* some grub.cfg in the image and some extraCommandLine in the config.     *)
(***************************************************************************)
InitGrub ==
    /\ MountIdle
    /\ RpmIdle
    /\ OrchIdle
    /\ ScrIdle
    /\ ShdIdle
    /\ TkIdle
    /\ CallIdle
    /\ kcl \in {[before |-> f, file |-> f, extra |-> e, pc |-> "kernelCommandLine",
                 err |-> NoErr, wrote |-> FALSE] :
                    f \in GrubFiles, e \in ExtraCommandLines}

\* err = handleKernelCommandLine(config.KernelCommandLine.ExtraCommandLine,
\* imageChroot): called whatever the value of ExtraCommandLine
KclHandleKernelCommandLine ==
    /\ kcl.pc = "kernelCommandLine"
    /\ \E readOk \in BOOLEAN, writeOk \in BOOLEAN :
         \E r \in {handleKernelCommandLine(kcl.extra, kcl.file, readOk, writeOk)} :
             kcl' = [kcl EXCEPT !.file = r.file, !.err = r.err, !.wrote = r.wrote,
                                !.pc = "done"]
    /\ UNCHANGED <<mountVars, rpmVars, orchVars, scr, shd, tk, call>>

NextGrub == KclHandleKernelCommandLine

SpecGrub == InitGrub /\ [][NextGrub]_vars

\* The number of the line that position k of f lies in.
LineNo(f, k) == Cardinality({j \in 1..(k - 1) : f[j] = "\n"})

\* Line n of f holds "\tlinux ", and after it " $kernelopts".
LineMatches(f, n) ==
    \E p \in 1..Len(f), q \in 1..(Len(f) - 1) :
        /\ LineNo(f, p) = n /\ LineNo(f, q) = n /\ p + 2 <= q
        /\ f[p] = "\tlinux" /\ f[p + 1] = " "
        /\ f[q] = " " /\ f[q + 1] = "$kernelopts"

\* C15: a handleKernelCommandLine that returns success has made exactly one
\* edit: extraCommandLine and one space inserted immediately before a
\* $kernelopts token of the first matching linux line, every other byte
\* unchanged; when no line matches it returns an error without writing.
C15_SingleInsertionBeforeKernelopts ==
    kcl.pc = "done" =>
        /\ kcl.err = NoErr =>
              \E k \in 1..Len(kcl.before) :
                 /\ k > 1 /\ kcl.before[k] = "$kernelopts" /\ kcl.before[k - 1] = " "
                 /\ kcl.file = SubSeq(kcl.before, 1, k - 1) \o kcl.extra \o <<" ">>
                                  \o SubSeq(kcl.before, k, Len(kcl.before))
                 /\ LineMatches(kcl.before, LineNo(kcl.before, k))
                 /\ \A n \in 0..(LineNo(kcl.before, k) - 1) :
                       ~LineMatches(kcl.before, n)
        /\ (\A n \in 0..MaxLines : ~LineMatches(kcl.before, n)) =>
              (kcl.err # NoErr /\ ~kcl.wrote /\ kcl.file = kcl.before)

\* An insertion into the second line of a file whose first line is a linux
\* line without " $kernelopts".
C15_Witness ==
    /\ kcl.pc = "done" /\ kcl.err = NoErr /\ kcl.extra = <<"a", " ", "b">>
    /\ kcl.before = <<"\tlinux", " ", "$kernelopts", "\n",
                      "\tlinux", " ", "x", " ", "$kernelopts", " ", "x", "\n">>
    /\ kcl.file = <<"\tlinux", " ", "$kernelopts", "\n",
                    "\tlinux", " ", "x", " ", "a", " ", "b", " ", "$kernelopts",
                    " ", "x", "\n">>

\* No line of the file matches and the call returned an error.
C15_WitnessNoMatch ==
    /\ kcl.pc = "done" /\ kcl.err = {"nomatch"}
    /\ kcl.before = <<"\tlinux", " ", "x", "\n", " ", "$kernelopts", "\n">>

\* C16 as stated: with an empty extraCommandLine the step is a no-op and
\* grub.cfg is byte-identical before and after.
C16_EmptyIsNoOp ==
    (kcl.pc = "done" /\ kcl.extra = <<>>) => kcl.file = kcl.before

(***************************************************************************)
(* SpecShadow: one call of Chage on some shadow file.                      *)
(***************************************************************************)
InitShadow ==
    /\ MountIdle
    /\ RpmIdle
    /\ OrchIdle
    /\ ScrIdle
    /\ KclIdle
    /\ TkIdle
    /\ CallIdle
    /\ shd \in {[before |-> f, file |-> f, days |-> d, name |-> "u", now |-> t,
                 pc |-> "call", err |-> NoErr, wrote |-> FALSE] :
                    f \in ShadowFiles, d \in DaysSet, t \in 1..2}

\* err = Chage(passwordExpirationInDays, username)
ShdChage ==
    /\ shd.pc = "call"
    /\ \E readOk \in BOOLEAN, writeOk \in BOOLEAN :
         \E r \in {Chage(shd.days, shd.name, shd.file, shd.now, readOk, writeOk)} :
             shd' = [shd EXCEPT !.file = r.shadow, !.err = r.err, !.wrote = r.wrote,
                                !.pc = "done"]
    /\ UNCHANGED <<mountVars, rpmVars, orchVars, scr, kcl, tk, call>>

NextShadow == ShdChage

SpecShadow == InitShadow /\ [][NextShadow]_vars

\* The entry of the named user: the first one that starts with "<name>:".
UserEntry(f, name) ==
    CHOOSE n \in 1..Len(f) :
        /\ HasUserPrefix(f[n], name)
        /\ \A m \in 1..(n - 1) : ~HasUserPrefix(f[m], name)

HasUser(f, name) == \E n \in 1..Len(f) : HasUserPrefix(f[n], name)

\* last-change as Chage uses it: the current day number when it is empty.
LastChange(e, now) == IF e[3] = Blank THEN Num(now) ELSE e[3]

\* C17 as stated, for a user whose entry has 9 fields: days = -1 blanks
\* fields 5-9; days >= 0 sets expiration to last-change + days, an empty
\* last-change being filled with the current day number first; days <= -2
\* is rejected with an error.
C17_ChageSetsExpiration ==
    (shd.pc = "done" /\ HasUser(shd.before, shd.name)
       /\ Len(shd.before[UserEntry(shd.before, shd.name)]) = 9) =>
        LET n   == UserEntry(shd.before, shd.name)
            old == shd.before[n]
        IN  /\ (shd.days = -1 /\ shd.err = NoErr) =>
                  /\ \A i \in 5..9 : shd.file[n][i] = Blank
                  /\ \A i \in 1..4 : shd.file[n][i] = old[i]
            /\ (shd.days >= 0 /\ shd.err = NoErr) =>
                  /\ shd.file[n][3] = LastChange(old, shd.now)
                  /\ shd.file[n][8] = Num(LastChange(old, shd.now).n + shd.days)
                  /\ \A i \in {1, 2, 4, 5, 6, 7, 9} : shd.file[n][i] = old[i]
            /\ shd.days <= -2 => shd.err # NoErr
            /\ (shd.days >= -1 /\ LastChange(old, shd.now).kind = "num"
                  /\ shd.err # {"read"} /\ shd.err # {"write"}) => shd.err = NoErr

\* The same without the sums that do not fit in an int64.
C17_ChageSetsExpirationInRange ==
    (shd.pc = "done" /\ HasUser(shd.before, shd.name)
       /\ Len(shd.before[UserEntry(shd.before, shd.name)]) = 9) =>
        LET n   == UserEntry(shd.before, shd.name)
            old == shd.before[n]
        IN  /\ (shd.days = -1 /\ shd.err = NoErr) =>
                  /\ \A i \in 5..9 : shd.file[n][i] = Blank
                  /\ \A i \in 1..4 : shd.file[n][i] = old[i]
            /\ (shd.days >= 0 /\ shd.err = NoErr
                  /\ LastChange(old, shd.now).n + shd.days <= MaxInt64) =>
                  /\ shd.file[n][3] = LastChange(old, shd.now)
                  /\ shd.file[n][8] = Num(LastChange(old, shd.now).n + shd.days)
                  /\ \A i \in {1, 2, 4, 5, 6, 7, 9} : shd.file[n][i] = old[i]
            /\ shd.days <= -2 => shd.err # NoErr

\* C18: Chage changes only the entry of the named user, every other line and
\* the order of lines stay as they were; when it returns an error because
\* the user is not found, the entry has not exactly 9 fields, days < -1 or
\* last-change is not a number, the shadow file is not written.
C18_OnlyNamedEntryChanges ==
    shd.pc = "done" =>
        /\ shd.err = NoErr =>
              /\ Len(shd.file) = Len(shd.before)
              /\ \A m \in 1..Len(shd.before) :
                    m # UserEntry(shd.before, shd.name) => shd.file[m] = shd.before[m]
              /\ shd.file[UserEntry(shd.before, shd.name)][1] = Txt(shd.name)
        /\ (shd.err # NoErr /\ shd.err # {"write"}) =>
              (~shd.wrote /\ shd.file = shd.before)
        /\ (\/ ~HasUser(shd.before, shd.name)
            \/ Len(shd.before[UserEntry(shd.before, shd.name)]) # 9
            \/ shd.days < -1
            \/ (shd.days >= 0
                  /\ shd.before[UserEntry(shd.before, shd.name)][3] = Txt("x")))
              => (shd.err # NoErr /\ ~shd.wrote /\ shd.file = shd.before)

\* A three-entry file whose middle entry is the user's and was changed.
C18_Witness ==
    /\ shd.pc = "done" /\ shd.err = NoErr /\ Len(shd.before) = 3
    /\ UserEntry(shd.before, shd.name) = 2
    /\ shd.file[2] # shd.before[2]
    /\ shd.file[1] = shd.before[1] /\ shd.file[3] = shd.before[3]

\* The user's last-change is not a number and Chage returned the error.
C18_WitnessParseError ==
    /\ shd.pc = "done" /\ shd.err = {"parse"} /\ shd.days = 1
    /\ Len(shd.before) = 2 /\ shd.file = shd.before

(***************************************************************************)
(* The tokenizer's functions, one loop iteration at a time.  Each operator *)
(* maps the tokenizer state at the head of the function's loop to the      *)
(* state after the iteration.                                              *)
(***************************************************************************)

\* tokenize(): one iteration; the default case is the call of parseWord up
\* to its loop (a word that starts with # is a comment).
tokenize(t) ==
    LET c == scannerPeek(t)
    IN  IF Eof(t) THEN [t EXCEPT !.pc = "done"]
        ELSE IF c \in Metacharacters \cup {"\n"}
        THEN [scannerNext(t) EXCEPT !.tokens = Append(t.tokens,
                  newToken(t.content, t.idx, t.idx + 1, TokenTypeOf(c)))]
        ELSE IF c \in Spaces
        THEN [t EXCEPT !.tokStart = t.idx, !.pc = "space"]
        ELSE IF c = "#"
        THEN [scannerNext(t) EXCEPT !.tokStart = t.idx, !.sb = <<>>,
                                    !.pc = "comment"]
        ELSE [t EXCEPT !.tokStart = t.idx, !.subWords = <<>>,
                       !.notFirst = FALSE, !.pc = "word"]

\* Variant of parseSpace whose loop does not consume the space it sees.
parseSpaceNoNext(t) ==
    IF ~Eof(t) /\ scannerPeek(t) \in Spaces THEN t
    ELSE [t EXCEPT !.tokens = Append(t.tokens,
              newToken(t.content, t.tokStart, t.idx, "SPACE")),
                   !.pc = "tokenize"]

parseSpace(t) ==
    IF ~Eof(t) /\ scannerPeek(t) \in Spaces THEN scannerNext(t)
    ELSE [t EXCEPT !.tokens = Append(t.tokens,
              newToken(t.content, t.tokStart, t.idx, "SPACE")),
                   !.pc = "tokenize"]

parseComment(t) ==
    IF ~Eof(t) /\ scannerPeek(t) # "\n"
    THEN [scannerNext(t) EXCEPT !.sb = Append(t.sb, scannerPeek(t))]
    ELSE [t EXCEPT !.tokens = Append(t.tokens,
              newToken(t.content, t.tokStart, t.idx, "COMMENT")),
                   !.sb = <<>>, !.pc = "tokenize"]

\* parseWord(): one iteration of its loop; a sub-parser is entered up to
\* its own loop, and leaving the loop appends the WORD token.
parseWord(t) ==
    LET c == scannerPeek(t)
    IN  IF Eof(t) \/ c \in Metacharacters \cup {"\n"} \cup Spaces
        THEN [t EXCEPT !.tokens = Append(t.tokens,
                  [newToken(t.content, t.tokStart, t.idx, "WORD")
                      EXCEPT !.subWords = t.subWords]),
                       !.subWords = <<>>, !.pc = "tokenize"]
        ELSE IF c = "\""
        THEN [scannerNext(t) EXCEPT !.subStart = t.idx, !.sb = <<>>,
                                    !.pc = "dquote"]
        ELSE IF c = "'"
        THEN [scannerNext(t) EXCEPT !.subStart = t.idx, !.sb = <<>>,
                                    !.pc = "squote"]
        ELSE IF c = "$" THEN EnterVar(t, "word")
        ELSE [t EXCEPT !.subStart = t.idx, !.sb = <<>>,
                       !.uqNotFirst = t.notFirst, !.pc = "unquoted"]

\* Variant of parseUnquotedString that types what it has read at the end
\* of the loop KEYWORD_STRING whatever notFirst is.
parseUnquotedStringIgnoresNotFirst(t) ==
    LET c == scannerPeek(t)
    IN  IF Eof(t) \/ c \in Metacharacters \cup Spaces \cup {"\n", "\"", "'", "$"}
        THEN ReturnToWord(
                 [t EXCEPT !.subWords = Append(t.subWords,
                      newSubWord(t.content, t.subStart, t.idx,
                          "KEYWORD_STRING", t.sb))],
                 NoTkErr)
        ELSE IF c = "\\"
        THEN LET t1 == IF t.uqNotFirst THEN t
                       ELSE [t EXCEPT
                              !.uqNotFirst = TRUE,
                              !.subWords =
                                  IF t.idx # t.subStart
                                  THEN Append(t.subWords,
                                           newSubWord(t.content, t.subStart,
                                               t.idx, "KEYWORD_STRING", t.sb))
                                  ELSE t.subWords,
                              !.subStart = t.idx,
                              !.sb = <<>>]
                 t2 == scannerNext(t1)
                 c2 == scannerPeek(t2)
             IN  IF Eof(t2) THEN [t2 EXCEPT !.sb = Append(t1.sb, "\\")]
                 ELSE IF c2 = "\n" THEN scannerNext(t2)
                 ELSE [scannerNext(t2) EXCEPT !.sb = Append(t1.sb, c2)]
        ELSE [scannerNext(t) EXCEPT !.sb = Append(t.sb, c)]

parseUnquotedString(t) ==
    LET c == scannerPeek(t)
    IN  IF Eof(t) \/ c \in Metacharacters \cup Spaces \cup {"\n", "\"", "'", "$"}
        THEN ReturnToWord(
                 [t EXCEPT !.subWords = Append(t.subWords,
                      newSubWord(t.content, t.subStart, t.idx,
                          IF t.uqNotFirst THEN "STRING" ELSE "KEYWORD_STRING",
                          t.sb))],
                 NoTkErr)
        ELSE IF c = "\\"
        THEN LET t1 == IF t.uqNotFirst THEN t
                       ELSE [t EXCEPT
                              !.uqNotFirst = TRUE,
                              !.subWords =
                                  IF t.idx # t.subStart
                                  THEN Append(t.subWords,
                                           newSubWord(t.content, t.subStart,
                                               t.idx, "KEYWORD_STRING", t.sb))
                                  ELSE t.subWords,
                              !.subStart = t.idx,
                              !.sb = <<>>]
                 t2 == scannerNext(t1)
                 c2 == scannerPeek(t2)
             IN  IF Eof(t2) THEN [t2 EXCEPT !.sb = Append(t1.sb, "\\")]
                 ELSE IF c2 = "\n" THEN scannerNext(t2)
                 ELSE [scannerNext(t2) EXCEPT !.sb = Append(t1.sb, c2)]
        ELSE [scannerNext(t) EXCEPT !.sb = Append(t.sb, c)]

\* Variant of parseDoubleQuotedString that drops the \ of every escape,
\* as parseUnquotedString does.
parseDoubleQuotedStringDropsBackslash(t) ==
    LET c == scannerPeek(t)
    IN  IF Eof(t)
        THEN ReturnToWord(t, ErrorAt("eof-dquote", t.content, t.idx))
        ELSE IF c = "\""
        THEN ReturnToWord(
                 [scannerNext(t) EXCEPT !.subWords = Append(t.subWords,
                      newSubWord(t.content, t.subStart, t.idx + 1,
                                 "STRING", t.sb))],
                 NoTkErr)
        ELSE IF c = "\\"
        THEN LET t2 == scannerNext(t)
                 c2 == scannerPeek(t2)
             IN  IF Eof(t2)
                 THEN ReturnToWord(t2, ErrorAt("eof-escape", t2.content, t2.idx))
                 ELSE IF c2 \in {"$", "\"", "\\"}
                 THEN [scannerNext(t2) EXCEPT !.sb = Append(t.sb, c2)]
                 ELSE IF c2 = "\n" THEN scannerNext(t2)
                 ELSE [scannerNext(t2) EXCEPT !.sb = Append(t.sb, c2)]
        ELSE IF c = "$"
        THEN EnterVar(
                 [t EXCEPT !.subWords =
                      IF t.idx # t.subStart
                      THEN Append(t.subWords,
                               newSubWord(t.content, t.subStart, t.idx,
                                          "STRING", t.sb))
                      ELSE t.subWords],
                 "dquote")
        ELSE [scannerNext(t) EXCEPT !.sb = Append(t.sb, c)]

\* Variant of parseDoubleQuotedString that takes the end of the input for
\* the end of the string.
parseDoubleQuotedStringEofCloses(t) ==
    LET c == scannerPeek(t)
    IN  IF Eof(t) \/ c = "\""
        THEN ReturnToWord(
                 [scannerNext(t) EXCEPT !.subWords = Append(t.subWords,
                      newSubWord(t.content, t.subStart, scannerNext(t).idx,
                                 "STRING", t.sb))],
                 NoTkErr)
        ELSE IF c = "\\"
        THEN LET t2 == scannerNext(t)
                 c2 == scannerPeek(t2)
             IN  IF Eof(t2)
                 THEN ReturnToWord(t2, ErrorAt("eof-escape", t2.content, t2.idx))
                 ELSE IF c2 \in {"$", "\"", "\\"}
                 THEN [scannerNext(t2) EXCEPT !.sb = Append(t.sb, c2)]
                 ELSE IF c2 = "\n" THEN scannerNext(t2)
                 ELSE [scannerNext(t2) EXCEPT !.sb = t.sb \o <<"\\", c2>>]
        ELSE IF c = "$"
        THEN EnterVar(
                 [t EXCEPT !.subWords =
                      IF t.idx # t.subStart
                      THEN Append(t.subWords,
                               newSubWord(t.content, t.subStart, t.idx,
                                          "STRING", t.sb))
                      ELSE t.subWords],
                 "dquote")
        ELSE [scannerNext(t) EXCEPT !.sb = Append(t.sb, c)]

parseDoubleQuotedString(t) ==
    LET c == scannerPeek(t)
    IN  IF Eof(t)
        THEN ReturnToWord(t, ErrorAt("eof-dquote", t.content, t.idx))
        ELSE IF c = "\""
        THEN ReturnToWord(
                 [scannerNext(t) EXCEPT !.subWords = Append(t.subWords,
                      newSubWord(t.content, t.subStart, t.idx + 1,
                                 "STRING", t.sb))],
                 NoTkErr)
        ELSE IF c = "\\"
        THEN LET t2 == scannerNext(t)
                 c2 == scannerPeek(t2)
             IN  IF Eof(t2)
                 THEN ReturnToWord(t2, ErrorAt("eof-escape", t2.content, t2.idx))
                 ELSE IF c2 \in {"$", "\"", "\\"}
                 THEN [scannerNext(t2) EXCEPT !.sb = Append(t.sb, c2)]
                 ELSE IF c2 = "\n" THEN scannerNext(t2)
                 ELSE [scannerNext(t2) EXCEPT !.sb = t.sb \o <<"\\", c2>>]
        ELSE IF c = "$"
        THEN EnterVar(
                 [t EXCEPT !.subWords =
                      IF t.idx # t.subStart
                      THEN Append(t.subWords,
                               newSubWord(t.content, t.subStart, t.idx,
                                          "STRING", t.sb))
                      ELSE t.subWords],
                 "dquote")
        ELSE [scannerNext(t) EXCEPT !.sb = Append(t.sb, c)]

parseSingleQuotedString(t) ==
    LET c == scannerPeek(t)
    IN  IF Eof(t)
        THEN ReturnToWord(t, ErrorAt("eof-squote", t.content, t.idx))
        ELSE IF c = "'"
        THEN ReturnToWord(
                 [scannerNext(t) EXCEPT !.subWords = Append(t.subWords,
                      newSubWord(t.content, t.subStart, t.idx + 1,
                                 "STRING", t.sb))],
                 NoTkErr)
        ELSE [scannerNext(t) EXCEPT !.sb = Append(t.sb, c)]

\* parseVariableExpansion(subWordType): one iteration of the name loop;
\* leaving the loop runs the rest of the function.
parseVariableExpansion(t) ==
    LET c == scannerPeek(t)
        subWordType == IF t.ret = "word" THEN "VAR_EXPANSION"
                       ELSE "QUOTED_VAR_EXPANSION"
    IN  IF ~Eof(t) /\ c \in NameChars
        THEN [scannerNext(t) EXCEPT !.sb = Append(t.sb, c)]
        ELSE IF t.usesBraces /\ Eof(t)
        THEN ReturnFromVar(t, ErrorAt("eof-var", t.content, t.idx))
        ELSE IF t.usesBraces /\ c # "}"
        THEN ReturnFromVar(t, ErrorAt("missing-brace", t.content, t.idx))
        ELSE IF t.usesBraces /\ t.sb = <<>>
        THEN ReturnFromVar(scannerNext(t),
                           ErrorAt("missing-name", t.content, t.varStart))
        ELSE IF t.usesBraces
        THEN ReturnFromVar(
                 [scannerNext(t) EXCEPT !.subWords = Append(t.subWords,
                      newSubWord(t.content, t.varStart, t.idx + 1,
                                 subWordType, t.sb))],
                 NoTkErr)
        ELSE IF t.sb = <<>>
        THEN ReturnFromVar(
                 [t EXCEPT !.subWords = Append(t.subWords,
                      newSubWord(t.content, t.varStart, t.idx, "STRING",
                                 <<"$">>))],
                 NoTkErr)
        ELSE ReturnFromVar(
                 [t EXCEPT !.subWords = Append(t.subWords,
                      newSubWord(t.content, t.varStart, t.idx, subWordType,
                                 t.sb))],
                 NoTkErr)

(***************************************************************************)
(* Specification of TokenizeGrubConfig on each content of at most          *)
(* MaxContentLen characters.                                               *)
(***************************************************************************)

InitTok ==
    /\ MountIdle /\ RpmIdle /\ OrchIdle
    /\ ScrIdle /\ KclIdle /\ ShdIdle /\ CallIdle
    /\ tk \in {NewTokenizer(content) : content \in Contents}

TkUnchanged == UNCHANGED <<mountVars, rpmVars, orchVars, scr, kcl, shd, call>>

TkTokenize == tk.pc = "tokenize" /\ tk' = tokenize(tk) /\ TkUnchanged

TkParseSpace == tk.pc = "space" /\ tk' = parseSpace(tk) /\ TkUnchanged

TkParseComment == tk.pc = "comment" /\ tk' = parseComment(tk) /\ TkUnchanged

TkParseWord == tk.pc = "word" /\ tk' = parseWord(tk) /\ TkUnchanged

TkParseUnquotedString ==
    tk.pc = "unquoted" /\ tk' = parseUnquotedString(tk) /\ TkUnchanged

TkParseDoubleQuotedString ==
    tk.pc = "dquote" /\ tk' = parseDoubleQuotedString(tk) /\ TkUnchanged

TkParseSingleQuotedString ==
    tk.pc = "squote" /\ tk' = parseSingleQuotedString(tk) /\ TkUnchanged

TkParseVariableExpansion ==
    tk.pc = "var" /\ tk' = parseVariableExpansion(tk) /\ TkUnchanged

NextTok ==
    \/ TkTokenize \/ TkParseSpace \/ TkParseComment \/ TkParseWord
    \/ TkParseUnquotedString \/ TkParseDoubleQuotedString
    \/ TkParseSingleQuotedString \/ TkParseVariableExpansion

SpecTok == InitTok /\ [][NextTok]_vars

TokenizedOk == tk.pc = "done" /\ tk.err = NoTkErr

\* C19: when TokenizeGrubConfig returns without an error, the tokens are in
\* source order and contiguous: the first starts at index 0, each starts
\* where the previous one ended, the last ends at the length of the input,
\* and the RawContent of the tokens, concatenated in order, is the input.
C19_TokensContiguousRoundTrip ==
    TokenizedOk =>
        /\ \A i \in 1..Len(tk.tokens) :
              /\ tk.tokens[i].start <= tk.tokens[i].end
              /\ tk.tokens[i].start =
                     IF i = 1 THEN 0 ELSE tk.tokens[i - 1].end
        /\ (IF tk.tokens = <<>> THEN 0
            ELSE tk.tokens[Len(tk.tokens)].end) = Len(tk.content)
        /\ Concat([i \in 1..Len(tk.tokens) |-> tk.tokens[i].raw]) = tk.content

\* A comment, a newline, a space and a word with a variable expansion.
C19_Witness ==
    /\ TokenizedOk
    /\ tk.content = <<"#", "\n", " ", "$">>
    /\ [i \in 1..Len(tk.tokens) |-> tk.tokens[i].type]
           = <<"COMMENT", "NEWLINE", "SPACE", "WORD">>

C19_WitnessWord ==
    /\ TokenizedOk
    /\ tk.content = <<"a", "\\", "\n", "a">>
    /\ Len(tk.tokens) = 1
    /\ Len(tk.tokens[1].subWords) = 2

\* The tokenizer stands inside a double-quoted string, a single-quoted
\* string or a ${ variable expansion that has not met its }.
InsideQuotedOrBraces ==
    \/ tk.pc \in {"dquote", "squote"}
    \/ tk.pc = "var" /\ tk.usesBraces

\* The input ends here: nothing is left, or only the \ of an escape in a
\* double-quoted string.
InputEndsHere ==
    \/ Eof(tk)
    \/ /\ tk.pc = "dquote"
       /\ tk.idx + 1 = Len(tk.content)
       /\ scannerPeek(tk) = "\\"

\* C20: when the input ends inside a double-quoted string, inside a
\* single-quoted string or inside a ${ variable expansion before its },
\* TokenizeGrubConfig returns an error that carries the line and the column
\* of the end of the input.
C20_EofInsideIsErrorWithLocation ==
    [][(InsideQuotedOrBraces /\ InputEndsHere) =>
          /\ tk'.pc = "done"
          /\ tk'.err.kind \in {"eof-dquote", "eof-escape", "eof-squote", "eof-var"}
          /\ tk'.err.line = LineAt(tk.content, Len(tk.content))
          /\ tk'.err.col = ColAt(tk.content, Len(tk.content))
          /\ tk'.err.line >= 1 /\ tk'.err.col >= 1]_vars

\* A ${ expansion inside a double-quoted string on the second line.
C20_Witness ==
    /\ tk.pc = "done"
    /\ tk.content = <<"\n", "\"", "$", "{">>
    /\ tk.err = [kind |-> "eof-var", line |-> 2, col |-> 4]

C20_WitnessDoubleQuoted ==
    /\ tk.pc = "done"
    /\ tk.content = <<"a", "\"", "\\", "\"">>
    /\ tk.err.kind = "eof-dquote"

C20_WitnessSingleQuoted ==
    /\ tk.pc = "done"
    /\ tk.content = <<"'", "\"", "$", "{">>
    /\ tk.err.kind = "eof-squote"

\* The value the claim gives to the characters between the quotes of a
\* double-quoted string that holds no variable expansion.
RECURSIVE DoubleQuotedValue(_)
DoubleQuotedValue(body) ==
    IF body = <<>> THEN <<>>
    ELSE IF Head(body) = "\\" /\ Len(body) >= 2
    THEN (IF body[2] \in {"$", "\"", "\\"} THEN <<body[2]>>
          ELSE IF body[2] = "\n" THEN <<>>
          ELSE <<"\\", body[2]>>)
         \o DoubleQuotedValue(SubSeq(body, 3, Len(body)))
    ELSE <<Head(body)>> \o DoubleQuotedValue(Tail(body))

\* The content is one double-quoted string, tokenized as one sub-word.
OneDoubleQuotedString ==
    /\ TokenizedOk
    /\ Len(tk.content) >= 2
    /\ tk.content[1] = "\""
    /\ Len(tk.tokens) = 1
    /\ Len(tk.tokens[1].subWords) = 1
    /\ tk.tokens[1].subWords[1].raw = tk.content

\* C21: the value of a double-quoted string has \$, \" and \\ replaced by
\* the escaped character alone, a \ followed by a newline dropped, and for
\* every other escaped character both the \ and the character kept.
C21_DoubleQuotedEscapes ==
    OneDoubleQuotedString =>
        /\ tk.tokens[1].subWords[1].type = "STRING"
        /\ tk.tokens[1].subWords[1].value =
               DoubleQuotedValue(SubSeq(tk.content, 2, Len(tk.content) - 1))

\* An invalid escape keeps its backslash.
C21_Witness ==
    /\ OneDoubleQuotedString
    /\ tk.content = <<"\"", "\\", "a", "\"">>
    /\ tk.tokens[1].subWords[1].value = <<"\\", "a">>

C21_WitnessValidEscape ==
    /\ OneDoubleQuotedString
    /\ tk.content = <<"\"", "\\", "$", "\"">>
    /\ tk.tokens[1].subWords[1].value = <<"$">>

C21_WitnessNewline ==
    /\ OneDoubleQuotedString
    /\ tk.content = <<"\"", "\\", "\n", "\"">>
    /\ tk.tokens[1].subWords[1].value = <<>>

(***************************************************************************)
(* updatePackages on lists of package names (imagecustomizer.go).          *)
(***************************************************************************)

\* Number of package names in one package list file and in the inline list.
MaxPackages == 2

\* Number of package list files.
MaxPackageLists == 2

PackageNames == {"p", "q"}

PackageSeqs == UNION {[1..l -> PackageNames] : l \in 0..MaxPackages}

\* A package list file: one that UnmarshalYamlFile reads, with its
\* packages, or one it cannot read.
PackageListFiles ==
    {[ok |-> TRUE, packages |-> ps] : ps \in PackageSeqs}
        \cup {[ok |-> FALSE, packages |-> <<>>]}

NoPkgErr == [kind |-> "none", package |-> ""]

RECURSIVE collectPackagesListFrom(_, _, _)
collectPackagesListFrom(packageLists, i, allPackages) ==
    IF i > Len(packageLists) THEN [err |-> NoPkgErr, allPackages |-> allPackages]
    ELSE IF ~packageLists[i].ok
    THEN [err |-> [kind |-> "readPackageList", package |-> ""], allPackages |-> <<>>]
    ELSE collectPackagesListFrom(packageLists, i + 1,
                                 allPackages \o packageLists[i].packages)

collectPackagesList(packageLists, packages) ==
    Once(collectPackagesListFrom(packageLists, 1, <<>>), LAMBDA c :
        IF c.err # NoPkgErr THEN c
        ELSE [c EXCEPT !.allPackages = c.allPackages \o packages])

\* Variant of the install loop that hands every package to one tdnf call.
tdnfInstallAllAtOnce(packages, i, failAt, runs) ==
    [err |-> IF failAt # 0
             THEN [kind |-> "install", package |-> packages[failAt]]
             ELSE NoPkgErr,
     runs |-> <<packages>>]

\* The install loop of updatePackagesHelper from package i on.  failAt: the
\* index of the package whose tdnf call fails (0: none); runs: the package
\* arguments of the tdnf calls made so far.
RECURSIVE tdnfInstallLoop(_, _, _, _)
tdnfInstallLoop(packages, i, failAt, runs) ==
    IF i > Len(packages) THEN [err |-> NoPkgErr, runs |-> runs]
    ELSE IF i = failAt
    THEN [err |-> [kind |-> "install", package |-> packages[i]],
          runs |-> Append(runs, <<packages[i]>>)]
    ELSE tdnfInstallLoop(packages, i + 1, failAt, Append(runs, <<packages[i]>>))

\* updatePackages with the package names: collectPackagesList, then
\* updatePackagesHelper.  o.mount, o.close: whether mountRpmSources and
\* mounts.close() succeed; o.failAt: the package whose install fails.
\* closes counts the calls of mounts.close(), the deferred one included.
updatePackagesOnLists(packageLists, packages, rpmsSources, o) ==
    Once(collectPackagesList(packageLists, packages), LAMBDA c :
        IF c.err # NoPkgErr
        THEN [err |-> c.err, runs |-> <<>>, mounted |-> FALSE, closes |-> 0]
        ELSE IF Len(c.allPackages) <= 0
        THEN [err |-> NoPkgErr, runs |-> <<>>, mounted |-> FALSE, closes |-> 0]
        ELSE IF ~rpmsSources
        THEN [err |-> [kind |-> "noRpmSources", package |-> ""], runs |-> <<>>,
              mounted |-> FALSE, closes |-> 0]
        ELSE IF ~o.mount
        THEN [err |-> [kind |-> "mountRpmSources", package |-> ""], runs |-> <<>>,
              mounted |-> FALSE, closes |-> 0]
        ELSE Once(tdnfInstallLoop(c.allPackages, 1, o.failAt, <<>>), LAMBDA t :
            IF t.err # NoPkgErr
            THEN [err |-> t.err, runs |-> t.runs, mounted |-> TRUE, closes |-> 1]
            ELSE [err |-> IF o.close THEN NoPkgErr
                          ELSE [kind |-> "close", package |-> ""],
                  runs |-> t.runs, mounted |-> TRUE, closes |-> 2]))

\* The package names a call installs when nothing fails.
AllPackagesOf(packageLists, packages) ==
    Concat([i \in 1..Len(packageLists) |-> packageLists[i].packages]) \o packages

InitPkg ==
    /\ MountIdle /\ RpmIdle /\ OrchIdle
    /\ ScrIdle /\ KclIdle /\ ShdIdle /\ TkIdle
    /\ \E packageLists \in UNION {[1..l -> PackageListFiles] : l \in 0..MaxPackageLists},
          packages \in PackageSeqs, rpmsSources \in BOOLEAN,
          mount \in BOOLEAN, close \in BOOLEAN :
          \E failAt \in 0..Len(AllPackagesOf(packageLists, packages)) :
              call = [fn |-> "updatePackages", pc |-> "call",
                      packageLists |-> packageLists, packages |-> packages,
                      rpmsSources |-> rpmsSources,
                      o |-> [mount |-> mount, close |-> close, failAt |-> failAt],
                      ret |-> [err |-> NoPkgErr, runs |-> <<>>,
                               mounted |-> FALSE, closes |-> 0]]

CallUnchanged == UNCHANGED <<mountVars, rpmVars, orchVars, scr, kcl, shd, tk>>

PkgUpdatePackages ==
    /\ call.pc = "call"
    /\ call' = [call EXCEPT
                  !.pc = "done",
                  !.ret = updatePackagesOnLists(call.packageLists, call.packages,
                                                call.rpmsSources, call.o)]
    /\ CallUnchanged

SpecPkg == InitPkg /\ [][PkgUpdatePackages]_vars

\* C22: the packages are installed one tdnf call per package, in list
\* order, the packages of the package list files in file order first and
\* the inline packages after them; the first install that fails ends the
\* sequence with an error that names its package.
C22_InstallsOneAtATimeInOrder ==
    (call.pc = "done" /\ call.ret.mounted) =>
        LET all == AllPackagesOf(call.packageLists, call.packages)
            n   == IF call.o.failAt = 0 THEN Len(all) ELSE call.o.failAt
        IN  /\ call.ret.runs = [i \in 1..n |-> <<all[i]>>]
            /\ (call.o.failAt # 0) =>
                   call.ret.err = [kind |-> "install", package |-> all[call.o.failAt]]
            /\ (call.o.failAt = 0) => call.ret.err.kind # "install"

\* Two package list files and inline packages; the third install fails.
C22_Witness ==
    /\ call.pc = "done"
    /\ call.ret.mounted
    /\ Len(call.packageLists) = 2
    /\ call.packageLists[1].packages = <<"p", "q">>
    /\ call.packageLists[2].packages = <<"q">>
    /\ call.packages = <<"p", "q">>
    /\ call.o.failAt = 3
    /\ call.ret.runs = <<<<"p">>, <<"q">>, <<"q">>>>
    /\ call.ret.err = [kind |-> "install", package |-> "q"]

(***************************************************************************)
(* The repo sections and mount targets mountRpmSourcesHelper composes      *)
(* (rpmsourcesmounts.go).  A file name is the sequence of the pieces its   *)
(* dots separate; a section is a name and a baseurl.                       *)
(***************************************************************************)

\* Number of RPM sources given to one call.
MaxRepoSources == 2

\* Number of sections in one repo config file.
MaxSections == 2

\* Number of entries of the base image's /etc/yum.repos.d.
MaxBaseEntries == 1

rpmsMountParentDirInChroot == "/sourcerpms"

UrlSet == {<<"http://", "x">>, <<"file://", "repo">>}

SectionSeqsOver(names) ==
    UNION {[1..l -> [name : {<<n>> : n \in names}, baseurl : UrlSet]] :
              l \in 0..MaxSections}

\* RPM sources: directories, files that are not repo configs (gzip: the
\* first two bytes are 1F 8B), and repo config files with their sections.
RepoSourceSet ==
    {[isDir |-> TRUE, name |-> n, gzip |-> FALSE, sections |-> <<>>] :
        n \in {<<"d">>, <<"d", "conf">>}}
    \cup {[isDir |-> FALSE, name |-> f[1], gzip |-> f[2], sections |-> <<>>] :
        f \in {<<<<"r", "tar">>, FALSE>>, <<<<"r", "tar", "gz">>, TRUE>>,
               <<<<"r", "tgz">>, TRUE>>, <<<<"r">>, FALSE>>,
               <<<<"r", "b", "conf">>, FALSE>>}}
    \cup {[isDir |-> FALSE, name |-> <<"r", "conf">>, gzip |-> FALSE,
           sections |-> ss] : ss \in SectionSeqsOver({"s1", "s2"})}

\* Entries of /etc/yum.repos.d: *.repo files, a directory, another file.
BaseEntrySet ==
    {[isDir |-> FALSE, repoSuffix |-> TRUE, sections |-> ss] :
        ss \in {s \in SectionSeqsOver({"b1", "s1"}) :
                   \A i \in 1..Len(s) : s[i].baseurl[1] = "file://"}}
    \cup {[isDir |-> TRUE, repoSuffix |-> TRUE,
           sections |-> <<[name |-> <<"b1">>, baseurl |-> <<"http://", "x">>]>>],
          [isDir |-> FALSE, repoSuffix |-> FALSE,
           sections |-> <<[name |-> <<"b1">>, baseurl |-> <<"http://", "x">>]>>]}

\* fmt.Sprintf("%02d", i)
TwoDigits(i) == <<"00", "01", "02", "03", "04", "05", "06", "07", "08", "09">>[i + 1]

\* Variant of getRpmSourceFileType that takes the extension from the last
\* dot of the file name.
getRpmSourceFileTypeLastDot(src) ==
    IF src.isDir THEN "dir"
    ELSE IF Len(src.name) >= 2 /\ src.name[Len(src.name)] \in {"tar"} THEN "tar"
    ELSE IF Len(src.name) >= 3 /\ SubSeq(src.name, Len(src.name) - 1, Len(src.name)) = <<"tar", "gz">>
    THEN "tar"
    ELSE IF Len(src.name) >= 2 /\ src.name[Len(src.name)] = "conf" THEN "conf"
    ELSE ""

\* getRpmSourceFileType: fileExt is the file name from its first dot on.
getRpmSourceFileType(src) ==
    IF src.isDir THEN "dir"
    ELSE IF Tail(src.name) \in {<<"tar">>, <<"tar", "gz">>} THEN "tar"
    ELSE IF Tail(src.name) = <<"conf">> THEN "conf"
    ELSE ""

\* ini.File.NewSection and Section.NewKey: a section whose name the file
\* already holds is the one returned, and the key is set in it.
appendIniSection(ini, section) ==
    IF \E i \in 1..Len(ini) : ini[i].name = section.name
    THEN [i \in 1..Len(ini) |->
             IF ini[i].name = section.name THEN section ELSE ini[i]]
    ELSE Append(ini, section)

\* mountRpmsDirectory: the target is "%02d%s" of the number of mounts held
\* and the source's name, under /sourcerpms.
mountRpmsDirectory(st, rpmSourceName) ==
    [st EXCEPT !.mounts = Append(st.mounts,
                              <<TwoDigits(Len(st.mounts))>> \o rpmSourceName)]

\* appendLocalRepo for the mount made last.
appendLocalRepo(st) ==
    LET target == st.mounts[Len(st.mounts)] IN
    [st EXCEPT !.ini = appendIniSection(st.ini,
        [name |-> target,
         baseurl |-> <<"file://", rpmsMountParentDirInChroot>> \o target])]

RECURSIVE createRepoFromRepoConfig(_, _, _, _)
createRepoFromRepoConfig(st, sections, i, isHostConfig) ==
    IF i > Len(sections) THEN st
    ELSE IF isHostConfig /\ sections[i].baseurl[1] = "file://"
    THEN Once(mountRpmsDirectory(st, Tail(sections[i].baseurl)), LAMBDA m :
         createRepoFromRepoConfig(
             [m EXCEPT !.ini = appendIniSection(m.ini,
                 [name |-> sections[i].name,
                  baseurl |-> <<"file://", rpmsMountParentDirInChroot>>
                                  \o m.mounts[Len(m.mounts)]])],
             sections, i + 1, isHostConfig))
    ELSE createRepoFromRepoConfig(
             [st EXCEPT !.ini = appendIniSection(st.ini, sections[i])],
             sections, i + 1, isHostConfig)

\* The loop over /etc/yum.repos.d of mountRpmSourcesHelper.
RECURSIVE baseImageRepos(_, _, _)
baseImageRepos(st, entries, i) ==
    IF i > Len(entries) THEN st
    ELSE IF entries[i].isDir \/ ~entries[i].repoSuffix
    THEN baseImageRepos(st, entries, i + 1)
    ELSE Once(createRepoFromRepoConfig(st, entries[i].sections, 1, FALSE),
              LAMBDA nxt : baseImageRepos(nxt, entries, i + 1))

\* The loop over rpmsSources of mountRpmSourcesHelper.
RECURSIVE mountTheRpmSources(_, _, _)
mountTheRpmSources(st, rpmsSources, i) ==
    IF i > Len(rpmsSources) THEN st
    ELSE Once(getRpmSourceFileType(rpmsSources[i]), LAMBDA fileType :
         Once([st EXCEPT !.fileTypes = Append(st.fileTypes, fileType)], LAMBDA s1 :
         CASE fileType = "dir" ->
                 \* rpmSourceName := path.Base(rpmSource)
                 Once(appendLocalRepo(mountRpmsDirectory(s1, rpmsSources[i].name)),
                      LAMBDA nxt : mountTheRpmSources(nxt, rpmsSources, i + 1))
           [] fileType = "tar" ->
                 \* the file name without its extension
                 Once(appendLocalRepo(
                          mountRpmsDirectory(s1, <<Head(rpmsSources[i].name)>>)),
                      LAMBDA nxt : mountTheRpmSources(nxt, rpmsSources, i + 1))
           [] fileType = "conf" ->
                 Once(createRepoFromRepoConfig(s1, rpmsSources[i].sections, 1, TRUE),
                      LAMBDA nxt : mountTheRpmSources(nxt, rpmsSources, i + 1))
           [] OTHER -> [s1 EXCEPT !.err = "unknownType", !.errAt = i]))

\* Variant of composeAllRepos that adds the base image's repos last.
composeAllReposBaseLast(rpmsSources, useBaseImageRpmRepos, entries) ==
    Once(mountTheRpmSources(
             [ini |-> <<>>, mounts |-> <<<<"resolv.conf">>>>, fileTypes |-> <<>>,
              err |-> "none", errAt |-> 0, saved |-> FALSE],
             rpmsSources, 1),
         LAMBDA s1 :
             IF s1.err # "none" THEN s1
             ELSE [(IF useBaseImageRpmRepos THEN baseImageRepos(s1, entries, 1)
                    ELSE s1) EXCEPT !.saved = TRUE])

\* mountRpmSourcesHelper from the resolv.conf mount on: the base image's
\* repos, the RPM sources, then allrepos.repo is saved.
composeAllRepos(rpmsSources, useBaseImageRpmRepos, entries) ==
    Once(IF useBaseImageRpmRepos
         THEN baseImageRepos(
                  [ini |-> <<>>, mounts |-> <<<<"resolv.conf">>>>, fileTypes |-> <<>>,
                   err |-> "none", errAt |-> 0, saved |-> FALSE],
                  entries, 1)
         ELSE [ini |-> <<>>, mounts |-> <<<<"resolv.conf">>>>, fileTypes |-> <<>>,
               err |-> "none", errAt |-> 0, saved |-> FALSE],
         LAMBDA s0 :
             Once(mountTheRpmSources(s0, rpmsSources, 1), LAMBDA s1 :
                  IF s1.err # "none" THEN s1 ELSE [s1 EXCEPT !.saved = TRUE]))

InitRepo ==
    /\ MountIdle /\ RpmIdle /\ OrchIdle
    /\ ScrIdle /\ KclIdle /\ ShdIdle /\ TkIdle
    /\ call \in [fn : {"mountRpmSourcesHelper"}, pc : {"call"},
                 rpmsSources : UNION {[1..l -> RepoSourceSet] : l \in 0..MaxRepoSources},
                 useBaseImageRpmRepos : BOOLEAN,
                 entries : UNION {[1..l -> BaseEntrySet] : l \in 0..MaxBaseEntries},
                 ret : {[ini |-> <<>>, mounts |-> <<>>, fileTypes |-> <<>>,
                         err |-> "none", errAt |-> 0, saved |-> FALSE]}]

RepoMountRpmSourcesHelper ==
    /\ call.pc = "call"
    /\ call' = [call EXCEPT
                  !.pc = "done",
                  !.ret = composeAllRepos(call.rpmsSources, call.useBaseImageRpmRepos,
                                          call.entries)]
    /\ CallUnchanged

SpecRepo == InitRepo /\ [][RepoMountRpmSourcesHelper]_vars

\* The sections a call is given, in source-iteration order: those of the
\* base image's *.repo files when they are used, then those of each RPM
\* source; a directory or tarball source gives one local section.
LocalSlot == <<"local">>

SlotsOfSource(src) ==
    IF src.isDir \/ Tail(src.name) \in {<<"tar">>, <<"tar", "gz">>} THEN <<LocalSlot>>
    ELSE [i \in 1..Len(src.sections) |-> src.sections[i].name]

GivenSlots ==
    (IF call.useBaseImageRpmRepos
     THEN Concat([i \in 1..Len(call.entries) |->
              IF call.entries[i].isDir \/ ~call.entries[i].repoSuffix THEN <<>>
              ELSE [j \in 1..Len(call.entries[i].sections) |->
                       call.entries[i].sections[j].name]])
     ELSE <<>>)
    \o Concat([i \in 1..Len(call.rpmsSources) |-> SlotsOfSource(call.rpmsSources[i])])

\* slots without the later occurrences of a section name
RECURSIVE FirstOccurrences(_, _)
FirstOccurrences(slots, seen) ==
    IF slots = <<>> THEN <<>>
    ELSE IF Head(slots) # LocalSlot /\ Head(slots) \in seen
    THEN FirstOccurrences(Tail(slots), seen)
    ELSE <<Head(slots)>> \o FirstOccurrences(Tail(slots), seen \cup {Head(slots)})

BaseSectionNames ==
    IF ~call.useBaseImageRpmRepos THEN {}
    ELSE UNION {{call.entries[i].sections[j].name :
                    j \in 1..Len(call.entries[i].sections)} :
                i \in {k \in 1..Len(call.entries) :
                          ~call.entries[k].isDir /\ call.entries[k].repoSuffix}}

SourceSectionNames ==
    UNION {{call.rpmsSources[i].sections[j].name :
               j \in 1..Len(call.rpmsSources[i].sections)} :
           i \in 1..Len(call.rpmsSources)}

\* C23: the saved allrepos.repo lists the sections in source-iteration
\* order, those of the base image's *.repo files first when
\* useBaseImageRpmRepos is set, then those of each RPM source in the order
\* of the sources (a section name met again keeps its first place); the
\* baseurl of a base image section is copied as it is.
C23_SectionsInSourceOrder ==
    (call.pc = "done" /\ call.ret.saved) =>
        /\ [i \in 1..Len(call.ret.ini) |->
               IF Len(call.ret.ini[i].name) = 1 THEN call.ret.ini[i].name
               ELSE LocalSlot]
             = FirstOccurrences(GivenSlots, {})
        /\ \A i \in 1..Len(call.ret.ini) :
               (call.ret.ini[i].name \in BaseSectionNames \ SourceSectionNames)
                   => call.ret.ini[i].baseurl = <<"file://", "repo">>

\* Base image sections, then a directory, then a repo config whose local
\* baseurl is rewritten.
C23_Witness ==
    /\ call.pc = "done"
    /\ call.ret.saved
    /\ call.useBaseImageRpmRepos
    /\ Len(call.rpmsSources) = 2
    /\ call.rpmsSources[1].isDir
    /\ call.ret.ini =
         <<[name |-> <<"b1">>, baseurl |-> <<"file://", "repo">>],
           [name |-> <<"s1">>, baseurl |-> <<"file://", "repo">>],
           [name |-> <<"01", "d">>, baseurl |-> <<"file://", "/sourcerpms", "01", "d">>],
           [name |-> <<"s2">>, baseurl |-> <<"file://", "/sourcerpms", "02", "repo">>]>>

\* Mounts a source makes when it is of a known type.
MountsOfSource(src) ==
    IF src.isDir \/ Tail(src.name) \in {<<"tar">>, <<"tar", "gz">>} THEN 1
    ELSE Cardinality({j \in 1..Len(src.sections) :
                         src.sections[j].baseurl[1] = "file://"})

RECURSIVE SumMounts(_, _)
SumMounts(srcs, n) ==
    IF n = 0 THEN 0 ELSE MountsOfSource(srcs[n]) + SumMounts(srcs, n - 1)

\* C24 as stated: a directory is a directory source, a file whose first
\* two bytes are 1F 8B a tarball source, a file with the .conf extension a
\* repo config source, and any other source is rejected.
C24_ClassifiedByMagicBytes ==
    call.pc = "done" =>
        \A i \in 1..Len(call.ret.fileTypes) :
            LET src == call.rpmsSources[i] IN
            call.ret.fileTypes[i] =
                IF src.isDir THEN "dir"
                ELSE IF src.gzip THEN "tar"
                ELSE IF src.name[Len(src.name)] = "conf" /\ Len(src.name) >= 2 THEN "conf"
                ELSE ""

\* C24, amended: a directory is a directory source; a file is classified
\* by the part of its name from the first dot on, .tar and .tar.gz a
\* tarball source, .conf a repo config source; any other source is
\* rejected with the unknown-type error and nothing is mounted for it.
C24_ClassifiedByExtension ==
    call.pc = "done" =>
        /\ \A i \in 1..Len(call.ret.fileTypes) :
              LET src == call.rpmsSources[i] IN
              /\ call.ret.fileTypes[i] =
                    IF src.isDir THEN "dir"
                    ELSE IF Tail(src.name) \in {<<"tar">>, <<"tar", "gz">>} THEN "tar"
                    ELSE IF Tail(src.name) = <<"conf">> THEN "conf"
                    ELSE ""
              /\ (call.ret.fileTypes[i] = "") =>
                    /\ call.ret.err = "unknownType"
                    /\ call.ret.errAt = i
                    /\ i = Len(call.ret.fileTypes)
                    /\ ~call.ret.saved
                    /\ Len(call.ret.mounts) = 1 + SumMounts(call.rpmsSources, i - 1)
        /\ (call.ret.err = "none") =>
              Len(call.ret.fileTypes) = Len(call.rpmsSources)

\* A directory is mounted, then a gzip file named r.tgz is rejected.
C24_Witness ==
    /\ call.pc = "done"
    /\ Len(call.rpmsSources) = 2
    /\ call.rpmsSources[1].isDir
    /\ call.rpmsSources[2].name = <<"r", "tgz">>
    /\ call.rpmsSources[2].gzip
    /\ call.ret.fileTypes = <<"dir", "">>
    /\ call.ret.err = "unknownType"
    /\ Len(call.ret.mounts) = 2

C24_WitnessTar ==
    /\ call.pc = "done"
    /\ Len(call.rpmsSources) = 1
    /\ call.rpmsSources[1].name = <<"r", "tar">>
    /\ ~call.rpmsSources[1].gzip
    /\ call.ret.fileTypes = <<"tar">>
    /\ call.ret.saved

(***************************************************************************)
(* findPartitions (imagecustomizer.go:167-233).                            *)
(***************************************************************************)

\* Number of partitions GetDiskPartitions reports.
MaxDiskPartitions == 2

EfiSystemPartitionTypeUuid == "c12a7328-f81f-11d2-ba4b-00a0c93ec93b"

BiosBootPartitionTypeUuid == "21686148-6449-6e6f-744e-656564454649"

LinuxPartitionTypeUuid == "0fc63daf-8483-4772-8e79-3d69d8477de4"

DiskPartitionSeqs ==
    UNION {[1..l -> [PartitionTypeUuid : {EfiSystemPartitionTypeUuid,
                                          BiosBootPartitionTypeUuid,
                                          LinuxPartitionTypeUuid},
                     Uuid : {"u1", "u2"}]] : l \in 0..MaxDiskPartitions}

\* Index of the first partition that satisfies Test, 0 when none does.
FirstPartition(diskPartitions, Test(_)) ==
    LET hits == {i \in 1..Len(diskPartitions) : Test(diskPartitions[i])}
    IN  IF hits = {} THEN 0 ELSE SetMin(hits)

\* Variant of findPartitions without the deferred Close.
findPartitionsNoDefer(diskPartitions, o) ==
    LET fs0 == [dir |-> "absent", mounted |-> FALSE]
        Ret(e, fs, mps, calls) ==
            [err |-> e, fs |-> fs, mountPoints |-> mps, calls |-> calls]
        esp == FirstPartition(diskPartitions,
                   LAMBDA p : p.PartitionTypeUuid = EfiSystemPartitionTypeUuid)
    IN  IF ~o.list THEN Ret("getDiskPartitions", fs0, <<>>, <<>>)
        ELSE IF esp = 0 THEN Ret("noEfiSystemPartition", fs0, <<>>, <<>>)
        ELSE Once(NewMount("bootpartition", fs0, TRUE, o.mkdir, o.mount), LAMBDA n :
            IF n.err # NoErr THEN Ret("mount", n.fs, <<>>, n.calls)
            ELSE IF ~o.read
            THEN Ret("readGrubCfg", n.fs, <<>>, n.calls \o <<"read">>)
            ELSE Once(Close(n.m, n.fs, o.close), LAMBDA c :
                 Once(n.calls \o <<"read">> \o c.calls, LAMBDA calls :
                 IF c.err # NoErr THEN Ret("close", c.fs, <<>>, calls)
                 ELSE IF o.match = "" THEN Ret("noRootfs", c.fs, <<>>, calls)
                 ELSE Once(FirstPartition(diskPartitions, LAMBDA p : p.Uuid = o.match),
                           LAMBDA rootfs :
                      IF rootfs = 0
                      THEN Ret("panic", c.fs, <<>>, calls)
                      ELSE Ret("none", c.fs,
                               <<[source |-> rootfs, target |-> "/"],
                                 [source |-> esp, target |-> "/boot/efi"]>>,
                               calls)))))

\* findPartitions.  o.list, o.read: whether GetDiskPartitions and the read
\* of grub.cfg succeed; o.mkdir, o.mount: the system calls of NewMount;
\* o.close, o.deferred: the unmount of the explicit and of the deferred
\* Close; o.match: the identifier rootfsPartitionRegex finds in grub.cfg
\* ("" when it finds none).  fs is the scratch directory bootpartition,
\* calls the system calls made on it and the read of grub.cfg, in order.
findPartitions(diskPartitions, o) ==
    LET fs0 == [dir |-> "absent", mounted |-> FALSE]
        Ret(e, fs, mps, calls) ==
            [err |-> e, fs |-> fs, mountPoints |-> mps, calls |-> calls]
        esp == FirstPartition(diskPartitions,
                   LAMBDA p : p.PartitionTypeUuid = EfiSystemPartitionTypeUuid)
    IN  IF ~o.list THEN Ret("getDiskPartitions", fs0, <<>>, <<>>)
        ELSE IF esp = 0 THEN Ret("noEfiSystemPartition", fs0, <<>>, <<>>)
        ELSE Once(NewMount("bootpartition", fs0, TRUE, o.mkdir, o.mount), LAMBDA n :
            IF n.err # NoErr THEN Ret("mount", n.fs, <<>>, n.calls)
            ELSE IF ~o.read
            THEN \* the deferred Close runs
                 Once(Close(n.m, n.fs, o.deferred), LAMBDA d :
                      Ret("readGrubCfg", d.fs, <<>>, n.calls \o <<"read">> \o d.calls))
            ELSE Once(Close(n.m, n.fs, o.close), LAMBDA c :
                 \* whatever follows, the deferred Close runs on return
                 Once(Close(c.m, c.fs, o.deferred), LAMBDA d :
                 Once(n.calls \o <<"read">> \o c.calls \o d.calls, LAMBDA calls :
                 IF c.err # NoErr THEN Ret("close", d.fs, <<>>, calls)
                 ELSE IF o.match = "" THEN Ret("noRootfs", d.fs, <<>>, calls)
                 ELSE Once(FirstPartition(diskPartitions, LAMBDA p : p.Uuid = o.match),
                           LAMBDA rootfs :
                      IF rootfs = 0
                      THEN \* rootfsPartition.Path on a nil pointer; the
                           \* deferred Close has run
                           Ret("panic", d.fs, <<>>, calls)
                      ELSE Ret("none", d.fs,
                               <<[source |-> rootfs, target |-> "/"],
                                 [source |-> esp, target |-> "/boot/efi"]>>,
                               calls))))))

InitParts ==
    /\ MountIdle /\ RpmIdle /\ OrchIdle
    /\ ScrIdle /\ KclIdle /\ ShdIdle /\ TkIdle
    /\ call \in [fn : {"findPartitions"}, pc : {"call"},
                 diskPartitions : DiskPartitionSeqs,
                 o : [list : BOOLEAN, mkdir : BOOLEAN, mount : BOOLEAN,
                      read : BOOLEAN, close : BOOLEAN, deferred : BOOLEAN,
                      match : {"", "u1", "u2"}],
                 ret : {[err |-> "none", fs |-> [dir |-> "absent", mounted |-> FALSE],
                         mountPoints |-> <<>>, calls |-> <<>>]}]

PartsFindPartitions ==
    /\ call.pc = "call"
    /\ call' = [call EXCEPT !.pc = "done",
                            !.ret = findPartitions(call.diskPartitions, call.o)]
    /\ CallUnchanged

SpecParts == InitParts /\ [][PartsFindPartitions]_vars

\* C25: when no partition has the EFI system partition type UUID and the
\* disk has a BIOS boot partition, findPartitions takes that partition as
\* the boot partition instead of failing for the missing EFI system
\* partition.
C25_FallsBackToBiosBoot ==
    (/\ call.pc = "done"
     /\ call.o.list
     /\ \A i \in 1..Len(call.diskPartitions) :
           call.diskPartitions[i].PartitionTypeUuid # EfiSystemPartitionTypeUuid
     /\ \E i \in 1..Len(call.diskPartitions) :
           call.diskPartitions[i].PartitionTypeUuid = BiosBootPartitionTypeUuid)
        => call.ret.err # "noEfiSystemPartition"

(***************************************************************************)
(* handleOverlays.  A string that is put together from pieces is the       *)
(* sequence of its pieces.                                                 *)
(***************************************************************************)

\* Number of overlays in the configuration.
MaxOverlays == 2

\* Number of entries of /etc/fstab before the call.
MaxFstabEntries == 2

OverlaySet ==
    {[Lower |-> "/l1", Upper |-> "/u1", Work |-> "/w1", Options |-> opt, Target |-> "/t1"] :
        opt \in {"", "ro"}}
    \cup {[Lower |-> "/l2", Upper |-> "/u2", Work |-> "/w2", Options |-> opt, Target |-> "/t2"] :
        opt \in {"", "noatime"}}

FstabEntrySet ==
    {[Source |-> "/dev/sda1", Target |-> "/", FsType |-> "ext4",
      Options |-> <<"defaults">>, Freq |-> 0, PassNo |-> 1],
     [Source |-> "overlay", Target |-> "/t1", FsType |-> "overlay",
      Options |-> <<"lowerdir=", "/l1", ",upperdir=", "/u1", ",workdir=", "/w1">>,
      Freq |-> 0, PassNo |-> 2]}

\* Variant of newFstabEntry that always puts the comma before lowerdir.
newFstabEntryAlwaysComma(overlay) ==
    [Source |-> "overlay", Target |-> overlay.Target, FsType |-> "overlay",
     Options |-> <<overlay.Options, ",">>
                     \o <<"lowerdir=", overlay.Lower, ",upperdir=", overlay.Upper,
                          ",workdir=", overlay.Work>>,
     Freq |-> 0, PassNo |-> 2]

\* The entry handleOverlays builds for one overlay.
newFstabEntry(overlay) ==
    [Source |-> "overlay", Target |-> overlay.Target, FsType |-> "overlay",
     Options |-> (IF overlay.Options # "" THEN <<overlay.Options, ",">> ELSE <<>>)
                     \o <<"lowerdir=", overlay.Lower, ",upperdir=", overlay.Upper,
                          ",workdir=", overlay.Work>>,
     Freq |-> 0, PassNo |-> 2]

\* The loop of handleOverlays from overlay i on.  failAt: the MkdirAll call
\* that fails, counted over the calls of the loop (0: none).
RECURSIVE overlaysLoop(_, _, _, _)
overlaysLoop(overlays, i, st, failAt) ==
    IF i > Len(overlays) THEN st
    ELSE Once([st EXCEPT !.fstabEntries = Append(st.fstabEntries,
                                                 newFstabEntry(overlays[i]))],
              LAMBDA s1 :
         IF failAt = 2 * i - 1 THEN [s1 EXCEPT !.err = "mkdirUpper"]
         ELSE IF failAt = 2 * i
         THEN [s1 EXCEPT !.err = "mkdirWork",
                         !.dirs = Append(s1.dirs, overlays[i].Upper)]
         ELSE overlaysLoop(overlays, i + 1,
                  [s1 EXCEPT !.dirs = s1.dirs \o <<overlays[i].Upper, overlays[i].Work>>],
                  failAt))

\* handleOverlays.  fstab: the entries of /etc/fstab; o.dracut, o.read,
\* o.write: whether addDracutModule, ReadFstabFile and WriteFstabFile
\* succeed.
handleOverlays(overlays, fstab, o) ==
    LET Ret(updated, e, file, dirs, dracut) ==
            [updated |-> updated, err |-> e, fstab |-> file, dirs |-> dirs,
             dracut |-> dracut]
    IN  IF Len(overlays) <= 0 THEN Ret(FALSE, "none", fstab, <<>>, FALSE)
        ELSE IF ~o.dracut THEN Ret(FALSE, "addDracutModule", fstab, <<>>, FALSE)
        ELSE IF ~o.read THEN Ret(FALSE, "readFstab", fstab, <<>>, TRUE)
        ELSE Once(overlaysLoop(overlays, 1,
                      [fstabEntries |-> fstab, dirs |-> <<>>, err |-> "none"],
                      o.failAt),
                  LAMBDA l :
             IF l.err # "none" THEN Ret(FALSE, l.err, fstab, l.dirs, TRUE)
             ELSE IF ~o.write THEN Ret(FALSE, "writeFstab", fstab, l.dirs, TRUE)
             ELSE Ret(TRUE, "none", l.fstabEntries, l.dirs, TRUE))

InitOverlays ==
    /\ MountIdle /\ RpmIdle /\ OrchIdle
    /\ ScrIdle /\ KclIdle /\ ShdIdle /\ TkIdle
    /\ \E overlays \in UNION {[1..l -> OverlaySet] : l \in 0..MaxOverlays},
          fstab \in UNION {[1..l -> FstabEntrySet] : l \in 0..MaxFstabEntries},
          dracut \in BOOLEAN, read \in BOOLEAN, write \in BOOLEAN :
          \E failAt \in 0..(2 * Len(overlays)) :
              call = [fn |-> "handleOverlays", pc |-> "call",
                      overlays |-> overlays, fstab |-> fstab,
                      o |-> [dracut |-> dracut, read |-> read, write |-> write,
                             failAt |-> failAt],
                      ret |-> [updated |-> FALSE, err |-> "none", fstab |-> fstab,
                               dirs |-> <<>>, dracut |-> FALSE]]

OvlHandleOverlays ==
    /\ call.pc = "call"
    /\ call' = [call EXCEPT !.pc = "done",
                            !.ret = handleOverlays(call.overlays, call.fstab, call.o)]
    /\ CallUnchanged

SpecOverlays == InitOverlays /\ [][OvlHandleOverlays]_vars

\* C26: for a non-empty overlay list a handleOverlays that succeeds has
\* written an fstab made of the previous entries, unchanged and in order,
\* followed by one entry per overlay in declaration order with source
\* overlay, fsType overlay, the overlay's target, freq 0, passno 2 and the
\* options <options>,lowerdir=<lower>,upperdir=<upper>,workdir=<work>
\* without the leading comma when options is empty, and returns true; for
\* an empty list it changes nothing and returns false.
C26_FstabAppendedPerOverlay ==
    call.pc = "done" =>
        /\ (call.overlays # <<>> /\ call.ret.err = "none") =>
              /\ call.ret.updated
              /\ Len(call.ret.fstab) = Len(call.fstab) + Len(call.overlays)
              /\ SubSeq(call.ret.fstab, 1, Len(call.fstab)) = call.fstab
              /\ \A i \in 1..Len(call.overlays) :
                    LET ov == call.overlays[i]
                        en == call.ret.fstab[Len(call.fstab) + i]
                    IN  /\ en.Source = "overlay" /\ en.FsType = "overlay"
                        /\ en.Target = ov.Target
                        /\ en.Freq = 0 /\ en.PassNo = 2
                        /\ en.Options =
                             IF ov.Options = ""
                             THEN <<"lowerdir=", ov.Lower, ",upperdir=", ov.Upper,
                                    ",workdir=", ov.Work>>
                             ELSE <<ov.Options, ",", "lowerdir=", ov.Lower,
                                    ",upperdir=", ov.Upper, ",workdir=", ov.Work>>
        /\ (call.overlays = <<>>) =>
              /\ ~call.ret.updated /\ call.ret.err = "none"
              /\ call.ret.fstab = call.fstab
              /\ call.ret.dirs = <<>> /\ ~call.ret.dracut
        /\ (call.ret.err # "none") =>
              ~call.ret.updated /\ call.ret.fstab = call.fstab

\* Two overlays, the first without options, after two existing entries.
C26_Witness ==
    /\ call.pc = "done"
    /\ call.ret.updated
    /\ Len(call.fstab) = 2
    /\ Len(call.overlays) = 2
    /\ call.overlays[1].Options = ""
    /\ call.overlays[2].Options = "noatime"
    /\ Len(call.ret.fstab) = 4
    /\ call.ret.fstab[4].Options =
          <<"noatime", ",", "lowerdir=", "/l2", ",upperdir=", "/u2", ",workdir=", "/w2">>

C26_WitnessEmpty ==
    /\ call.pc = "done"
    /\ call.overlays = <<>>
    /\ call.fstab # <<>>
    /\ ~call.ret.updated

(***************************************************************************)
(* Storage.IsValid.  A path is the sequence of its pieces; a partition's   *)
(* Flags is a set.                                                         *)
(***************************************************************************)

\* Number of disks in storage.disks.
MaxDisks == 2

\* Number of partitions of the first disk.
MaxPartitions == 2

\* Number of entries of storage.mountPoints.
MaxMountPoints == 2

BootTypeEfi == "efi"

BootTypeLegacy == "legacy"

FileSystemTypeFat32 == "fat32"

BootTypeSet == {BootTypeEfi, BootTypeLegacy, "", "bogus"}

PartitionSet ==
    {[ID |-> id, Flags |-> fl] :
        id \in {"a", "b"}, fl \in {{}, {"esp", "boot"}, {"bios_grub"}}}

\* The disks after the first are rejected before they are looked at.
ExtraDisk == [PartitionTableType |-> "gpt", Partitions |-> <<[ID |-> "c", Flags |-> {}]>>]

DiskSeqs ==
    {<<>>}
    \cup {<<[PartitionTableType |-> t, Partitions |-> ps]>> \o [i \in 1..n |-> ExtraDisk] :
            t \in {"gpt", "mbr"},
            ps \in UNION {[1..l -> PartitionSet] : l \in 0..MaxPartitions},
            n \in 0..(MaxDisks - 1)}

MountPointSet ==
    {[DeviceId |-> d, FileSystemType |-> f, MountIdentifierType |-> "uuid", Path |-> <<>>] :
        d \in {"a", "b"}, f \in {FileSystemTypeFat32, "ext4"}}
    \cup {[DeviceId |-> "a", FileSystemType |-> "bogus", MountIdentifierType |-> "uuid",
           Path |-> <<>>],
          [DeviceId |-> "a", FileSystemType |-> "ext4", MountIdentifierType |-> "bogus",
           Path |-> <<>>],
          [DeviceId |-> "a", FileSystemType |-> "ext4", MountIdentifierType |-> "uuid",
           Path |-> <<"mnt">>],
          [DeviceId |-> "b", FileSystemType |-> "ext4", MountIdentifierType |-> "partuuid",
           Path |-> <<"/", "mnt">>]}

StorageSet ==
    {[BootType |-> b, Disks |-> ds, MountPoints |-> ms] :
        b \in BootTypeSet, ds \in DiskSeqs,
        ms \in UNION {[1..l -> MountPointSet] : l \in 0..MaxMountPoints}}

\* BootType.IsValid.
BootTypeIsValid(bootType) == bootType \in {BootTypeEfi, BootTypeLegacy}

\* Disk.IsValid.
DiskIsValid(disk) == disk.PartitionTableType = "gpt"

\* Partition.IsESP and Partition.IsBiosBoot.
IsESP(partition) == "esp" \in partition.Flags

IsBiosBoot(partition) == "bios_grub" \in partition.Flags

\* FileSystemType.IsValid and MountIdentifierType.IsValid.
FileSystemTypeIsValid(t) == t \in {"ext2", "ext3", "ext4", "xfs", FileSystemTypeFat32}

MountIdentifierTypeIsValid(t) == t \in {"uuid", "partuuid", "partlabel", "default"}

\* MountPoint.IsValid.
MountPointIsValid(p) ==
    IF ~FileSystemTypeIsValid(p.FileSystemType) THEN FALSE
    ELSE IF ~MountIdentifierTypeIsValid(p.MountIdentifierType) THEN FALSE
    ELSE IF p.Path # <<>> /\ p.Path[1] # "/" THEN FALSE
    ELSE TRUE

\* The partitions of all disks in the order of the loops over disks and
\* disk.Partitions.
RECURSIVE AllPartitions(_)
AllPartitions(disks) ==
    IF disks = <<>> THEN <<>>
    ELSE disks[1].Partitions \o AllPartitions(Tail(disks))

\* Variant of diskCountError without the upper limit.
diskCountErrorAtLeastOne(disks) ==
    IF Len(disks) < 1 THEN "atLeastOneDisk"
    ELSE "none"

\* The checks of len(disks).
diskCountError(disks) ==
    IF Len(disks) < 1 THEN "atLeastOneDisk"
    ELSE IF Len(disks) > 1 THEN "multipleDisks"
    ELSE "none"

\* The loop that fills partitionSet, from partition i on; ids: the keys
\* of partitionSet.
RECURSIVE partitionSetError(_, _, _)
partitionSetError(partitions, i, ids) ==
    IF i > Len(partitions) THEN "none"
    ELSE IF partitions[i].ID \in ids THEN "duplicatePartitionId"
    ELSE partitionSetError(partitions, i + 1, ids \cup {partitions[i].ID})

\* Variant of mountPointsLoop that does not look the deviceId up in
\* partitionSet.
RECURSIVE mountPointsLoopNoLookup(_, _, _, _)
mountPointsLoopNoLookup(mountPoints, i, mountPointIDSet, partitionIds) ==
    IF i > Len(mountPoints) THEN [err |-> "none", mountPointIDSet |-> mountPointIDSet]
    ELSE IF ~MountPointIsValid(mountPoints[i])
    THEN [err |-> "invalidMountPoint", mountPointIDSet |-> mountPointIDSet]
    ELSE IF mountPoints[i].DeviceId \in DOMAIN mountPointIDSet
    THEN [err |-> "duplicateDeviceId", mountPointIDSet |-> mountPointIDSet]
    ELSE mountPointsLoopNoLookup(mountPoints, i + 1,
              [id \in DOMAIN mountPointIDSet \cup {mountPoints[i].DeviceId} |->
                  IF id = mountPoints[i].DeviceId THEN mountPoints[i]
                  ELSE mountPointIDSet[id]],
              partitionIds)

\* The loop over s.MountPoints from entry i on; mountPointIDSet: the map
\* from deviceId to mount point.
RECURSIVE mountPointsLoop(_, _, _, _)
mountPointsLoop(mountPoints, i, mountPointIDSet, partitionIds) ==
    IF i > Len(mountPoints) THEN [err |-> "none", mountPointIDSet |-> mountPointIDSet]
    ELSE IF ~MountPointIsValid(mountPoints[i])
    THEN [err |-> "invalidMountPoint", mountPointIDSet |-> mountPointIDSet]
    ELSE IF mountPoints[i].DeviceId \in DOMAIN mountPointIDSet
    THEN [err |-> "duplicateDeviceId", mountPointIDSet |-> mountPointIDSet]
    ELSE Once([id \in DOMAIN mountPointIDSet \cup {mountPoints[i].DeviceId} |->
                  IF id = mountPoints[i].DeviceId THEN mountPoints[i]
                  ELSE mountPointIDSet[id]],
              LAMBDA set :
         IF mountPoints[i].DeviceId \notin partitionIds
         THEN [err |-> "noMatchingPartition", mountPointIDSet |-> set]
         ELSE mountPointsLoop(mountPoints, i + 1, set, partitionIds))

\* Variant of specialPartitionsError that accepts a special partition
\* without a mount point.
RECURSIVE specialPartitionsErrorWhenMounted(_, _, _)
specialPartitionsErrorWhenMounted(partitions, i, mountPointIDSet) ==
    IF i > Len(partitions) THEN "none"
    ELSE LET partition == partitions[i]
             hasMountPoint == partition.ID \in DOMAIN mountPointIDSet
             notFat32 == /\ hasMountPoint
                         /\ mountPointIDSet[partition.ID].FileSystemType # FileSystemTypeFat32
         IN  IF IsESP(partition) /\ notFat32 THEN "espFat32"
             ELSE IF IsBiosBoot(partition) /\ notFat32 THEN "biosBootFat32"
             ELSE specialPartitionsErrorWhenMounted(partitions, i + 1, mountPointIDSet)

\* The loop that checks the file system type of the special partitions,
\* from partition i on.
RECURSIVE specialPartitionsError(_, _, _)
specialPartitionsError(partitions, i, mountPointIDSet) ==
    IF i > Len(partitions) THEN "none"
    ELSE LET partition == partitions[i]
             hasMountPoint == partition.ID \in DOMAIN mountPointIDSet
             notFat32 == \/ ~hasMountPoint
                         \/ mountPointIDSet[partition.ID].FileSystemType # FileSystemTypeFat32
         IN  IF IsESP(partition) /\ notFat32 THEN "espFat32"
             ELSE IF IsBiosBoot(partition) /\ notFat32 THEN "biosBootFat32"
             ELSE specialPartitionsError(partitions, i + 1, mountPointIDSet)

\* Variant of bootTypePartitionError without the case of BootTypeLegacy.
bootTypePartitionErrorEfiOnly(bootType, disks) ==
    IF bootType = BootTypeEfi
    THEN IF ~\E d \in 1..Len(disks) : \E p \in 1..Len(disks[d].Partitions) :
                IsESP(disks[d].Partitions[p])
         THEN "noEsp" ELSE "none"
    ELSE "none"

\* The switch on s.BootType.
bootTypePartitionError(bootType, disks) ==
    IF bootType = BootTypeEfi
    THEN IF ~\E d \in 1..Len(disks) : \E p \in 1..Len(disks[d].Partitions) :
                IsESP(disks[d].Partitions[p])
         THEN "noEsp" ELSE "none"
    ELSE IF bootType = BootTypeLegacy
    THEN IF ~\E d \in 1..Len(disks) : \E p \in 1..Len(disks[d].Partitions) :
                IsBiosBoot(disks[d].Partitions[p])
         THEN "noBiosBoot" ELSE "none"
    ELSE "none"

\* Storage.IsValid: the first error in the order of the code, "none" when
\* the storage section is accepted.
StorageIsValid(s) ==
    LET disks == s.Disks
        partitions == AllPartitions(disks)
        partitionIds == {partitions[i].ID : i \in 1..Len(partitions)}
    IN  IF diskCountError(disks) # "none" THEN diskCountError(disks)
        ELSE IF \E i \in 1..Len(disks) : ~DiskIsValid(disks[i]) THEN "invalidDisk"
        ELSE IF ~BootTypeIsValid(s.BootType) THEN "invalidBootType"
        ELSE IF partitionSetError(partitions, 1, {}) # "none"
        THEN partitionSetError(partitions, 1, {})
        ELSE Once(mountPointsLoop(s.MountPoints, 1, <<>>, partitionIds),
                  LAMBDA m :
             IF m.err # "none" THEN m.err
             ELSE IF specialPartitionsError(partitions, 1, m.mountPointIDSet) # "none"
             THEN specialPartitionsError(partitions, 1, m.mountPointIDSet)
             ELSE bootTypePartitionError(s.BootType, disks))

InitStorage ==
    /\ MountIdle /\ RpmIdle /\ OrchIdle
    /\ ScrIdle /\ KclIdle /\ ShdIdle /\ TkIdle
    /\ \E s \in StorageSet :
          call = [fn |-> "Storage.IsValid", pc |-> "call", s |-> s, ret |-> "none"]

StgIsValid ==
    /\ call.pc = "call"
    /\ call' = [call EXCEPT !.pc = "done", !.ret = StorageIsValid(call.s)]
    /\ CallUnchanged

SpecStorage == InitStorage /\ [][StgIsValid]_vars

AllPartitionIds(s) ==
    {AllPartitions(s.Disks)[i].ID : i \in 1..Len(AllPartitions(s.Disks))}

StorageAccepted == call.pc = "done" /\ call.ret = "none"

StorageRejected == call.pc = "done" /\ call.ret # "none"

\* C27: Storage.IsValid accepts a storage section only when storage.disks
\* holds exactly one disk; zero disks and more than one disk are both
\* rejected.
C27_ExactlyOneDisk ==
    call.pc = "done" =>
        /\ call.ret = "none" => Len(call.s.Disks) = 1
        /\ Len(call.s.Disks) = 0 => call.ret = "atLeastOneDisk"
        /\ Len(call.s.Disks) > 1 => call.ret = "multipleDisks"

\* Two disks, every other part of the section valid, are rejected.
C27_Witness ==
    /\ StorageRejected
    /\ call.ret = "multipleDisks"
    /\ Len(call.s.Disks) = 2
    /\ StorageIsValid([call.s EXCEPT !.Disks = <<call.s.Disks[1]>>]) = "none"

C27_WitnessZeroDisks == StorageRejected /\ call.s.Disks = <<>>

C27_WitnessAccepted ==
    StorageAccepted /\ Len(call.s.Disks) = 1 /\ Len(call.s.MountPoints) = 2

\* C28: Storage.IsValid rejects every configuration in which two mount
\* point entries share a deviceId or in which an entry's deviceId equals no
\* partition id; in an accepted storage section the deviceIds are unique
\* and each names an existing partition.
C28_DeviceIdsUniqueAndResolved ==
    call.pc = "done" =>
        LET mps == call.s.MountPoints
            shared == \E i, j \in 1..Len(mps) : i # j /\ mps[i].DeviceId = mps[j].DeviceId
            dangling == \E i \in 1..Len(mps) : mps[i].DeviceId \notin AllPartitionIds(call.s)
        IN  /\ shared => call.ret # "none"
            /\ dangling => call.ret # "none"
            /\ call.ret = "none" =>
                  /\ \A i, j \in 1..Len(mps) : mps[i].DeviceId = mps[j].DeviceId => i = j
                  /\ \A i \in 1..Len(mps) :
                        \E k \in 1..Len(AllPartitions(call.s.Disks)) :
                            AllPartitions(call.s.Disks)[k].ID = mps[i].DeviceId

\* Two entries for the same partition.
C28_Witness ==
    /\ StorageRejected
    /\ call.ret = "duplicateDeviceId"
    /\ Len(call.s.MountPoints) = 2
    /\ call.s.MountPoints[1].DeviceId = call.s.MountPoints[2].DeviceId

\* An entry whose deviceId names no partition.
C28_WitnessNoPartition ==
    /\ StorageRejected
    /\ call.ret = "noMatchingPartition"
    /\ \E i \in 1..Len(call.s.MountPoints) :
          call.s.MountPoints[i].DeviceId \notin AllPartitionIds(call.s)

\* C29: Storage.IsValid requires a boot partition that matches the boot
\* type: bootType efi without an ESP partition is rejected, bootType legacy
\* without a BIOS boot partition is rejected, and a missing or unknown
\* bootType is rejected.
C29_BootPartitionMatchesBootType ==
    call.pc = "done" =>
        LET parts == AllPartitions(call.s.Disks)
            hasEsp == \E i \in 1..Len(parts) : "esp" \in parts[i].Flags
            hasBiosBoot == \E i \in 1..Len(parts) : "bios_grub" \in parts[i].Flags
        IN  /\ (call.s.BootType = "efi" /\ ~hasEsp) => call.ret # "none"
            /\ (call.s.BootType = "legacy" /\ ~hasBiosBoot) => call.ret # "none"
            /\ call.s.BootType \notin {"efi", "legacy"} => call.ret # "none"
            /\ call.ret = "none" =>
                  \/ call.s.BootType = "efi" /\ hasEsp
                  \/ call.s.BootType = "legacy" /\ hasBiosBoot

\* bootType legacy on a disk whose only fault is the missing BIOS boot
\* partition.
C29_Witness ==
    /\ StorageRejected
    /\ call.ret = "noBiosBoot"
    /\ call.s.BootType = "legacy"
    /\ Len(call.s.Disks[1].Partitions) = 2

C29_WitnessEfi == StorageRejected /\ call.ret = "noEsp" /\ call.s.BootType = "efi"

C29_WitnessNoBootType ==
    /\ StorageRejected
    /\ call.ret = "invalidBootType"
    /\ call.s.BootType = ""
    /\ StorageIsValid([call.s EXCEPT !.BootType = "efi"]) = "none"

C29_WitnessAccepted ==
    StorageAccepted /\ call.s.BootType = "legacy"

\* C30: Storage.IsValid rejects every ESP partition and every BIOS boot
\* partition whose mount point entry is missing or whose file system type
\* is not fat32.
C30_SpecialPartitionsAreFat32 ==
    call.pc = "done" =>
        LET parts == AllPartitions(call.s.Disks)
            mps == call.s.MountPoints
            Special(p) == "esp" \in p.Flags \/ "bios_grub" \in p.Flags
            Missing(p) == \A i \in 1..Len(mps) : mps[i].DeviceId # p.ID
            NotFat32(p) == \E i \in 1..Len(mps) :
                               mps[i].DeviceId = p.ID /\ mps[i].FileSystemType # "fat32"
        IN  \A k \in 1..Len(parts) :
                (Special(parts[k]) /\ (Missing(parts[k]) \/ NotFat32(parts[k])))
                    => call.ret # "none"

\* An ESP without a mount point entry is the only fault of the section.
C30_Witness ==
    /\ StorageRejected
    /\ call.ret = "espFat32"
    /\ \E k \in 1..Len(call.s.Disks[1].Partitions) :
          /\ "esp" \in call.s.Disks[1].Partitions[k].Flags
          /\ \A i \in 1..Len(call.s.MountPoints) :
                call.s.MountPoints[i].DeviceId # call.s.Disks[1].Partitions[k].ID

\* A BIOS boot partition formatted as ext4.
C30_WitnessBiosBootExt4 ==
    /\ StorageRejected
    /\ call.ret = "biosBootFat32"
    /\ \E k \in 1..Len(call.s.Disks[1].Partitions) :
          /\ "bios_grub" \in call.s.Disks[1].Partitions[k].Flags
          /\ \E i \in 1..Len(call.s.MountPoints) :
                /\ call.s.MountPoints[i].DeviceId = call.s.Disks[1].Partitions[k].ID
                /\ call.s.MountPoints[i].FileSystemType = "ext4"

C30_WitnessAccepted ==
    /\ StorageAccepted
    /\ \E k \in 1..Len(call.s.Disks[1].Partitions) :
          "esp" \in call.s.Disks[1].Partitions[k].Flags

(***************************************************************************)
(* nameCheck.  A name is the sequence of its runes (code points).          *)
(***************************************************************************)

\* Number of runes of a partition name.
MaxNameLen == 37

maxLength == 36

MaxASCII == 127

\* Names of every length made of the letter a, with at most one rune
\* replaced by DEL, by U+0080 or by a rune outside the basic plane.
NameSet ==
    {[i \in 1..l |-> IF i = p THEN r ELSE 97] :
        l \in 0..MaxNameLen, p \in 0..MaxNameLen, r \in {127, 128, 128512}}

\* len(utf16.Encode([]rune(name))): a rune outside the basic plane takes a
\* surrogate pair.
RECURSIVE utf16EncodeLen(_)
utf16EncodeLen(name) ==
    IF name = <<>> THEN 0
    ELSE (IF Head(name) >= 65536 THEN 2 ELSE 1) + utf16EncodeLen(Tail(name))

\* Variant of nameCheck that does not count the terminating null.
nameCheckNoNull(name) ==
    LET stringLengthWithNull == utf16EncodeLen(name)
    IN  IF \E pos \in 1..Len(name) : name[pos] > MaxASCII THEN "nonAscii"
        ELSE IF stringLengthWithNull > maxLength THEN "tooLong"
        ELSE "none"

\* nameCheck: "none" when the name is accepted.
nameCheck(name) ==
    LET stringLengthWithNull == utf16EncodeLen(name) + 1
    IN  IF \E pos \in 1..Len(name) : name[pos] > MaxASCII THEN "nonAscii"
        ELSE IF stringLengthWithNull > maxLength THEN "tooLong"
        ELSE "none"

InitName ==
    /\ MountIdle /\ RpmIdle /\ OrchIdle
    /\ ScrIdle /\ KclIdle /\ ShdIdle /\ TkIdle
    /\ \E name \in NameSet :
          call = [fn |-> "nameCheck", pc |-> "call", name |-> name, ret |-> "none"]

NameNameCheck ==
    /\ call.pc = "call"
    /\ call' = [call EXCEPT !.pc = "done", !.ret = nameCheck(call.name)]
    /\ CallUnchanged

SpecName == InitName /\ [][NameNameCheck]_vars

\* C31: a label of at most 35 ASCII characters is accepted, a label of 36
\* or more ASCII characters is rejected with the too long error, and a
\* label containing any non-ASCII character is rejected with the ASCII
\* error, whatever its length.
C31_LabelLengthAndAscii ==
    call.pc = "done" =>
        LET ascii == \A i \in 1..Len(call.name) : call.name[i] < 128
        IN  /\ (ascii /\ Len(call.name) <= 35) => call.ret = "none"
            /\ (ascii /\ Len(call.name) >= 36) => call.ret = "tooLong"
            /\ ~ascii => call.ret = "nonAscii"

\* The longest accepted label, with DEL in it.
C31_Witness ==
    /\ call.pc = "done"
    /\ Len(call.name) = 35
    /\ \E i \in 1..35 : call.name[i] = 127
    /\ call.ret = "none"

C31_WitnessTooLong ==
    call.pc = "done" /\ Len(call.name) = 36 /\ call.ret = "tooLong"

C31_WitnessNonAscii ==
    /\ call.pc = "done"
    /\ Len(call.name) = 1
    /\ call.name[1] = 128
    /\ call.ret = "nonAscii"

(***************************************************************************)
(* KernelCommandLine.IsValid.  A command line is the sequence of its       *)
(* characters; "U+0060" is the backtick.                                   *)
(***************************************************************************)

\* Number of characters of extraCommandLine.
MaxCommandLineLen == 3

CommandLineChars == {"\n", "'", "\"", "\\", "$", "U+0060", "a", " ", "="}

SELinuxModeSet == {"", "disabled", "enforcing", "permissive", "force-enforcing", "bogus"}

\* SELinuxMode.IsValid.
SELinuxModeIsValid(s) ==
    s \in {"", "disabled", "enforcing", "permissive", "force-enforcing"}

\* Variant of commandLineIsValid that lets the backtick through.
commandLineIsValidNoBacktick(commandLine) ==
    ~\E i \in 1..Len(commandLine) : commandLine[i] \in {"\n", "'", "\"", "\\", "$"}

\* commandLineIsValid: strings.ContainsAny of newline, single quote, double
\* quote, backslash, dollar sign and backtick is the error.
commandLineIsValid(commandLine) ==
    ~\E i \in 1..Len(commandLine) : commandLine[i] \in {"\n", "'", "\"", "\\", "$", "U+0060"}

\* KernelCommandLine.IsValid: "none" when the value is accepted.
KernelCommandLineIsValid(s) ==
    IF ~SELinuxModeIsValid(s.SELinuxMode) THEN "invalidSELinux"
    ELSE IF ~commandLineIsValid(s.ExtraCommandLine) THEN "invalidCharacters"
    ELSE "none"

InitCommandLine ==
    /\ MountIdle /\ RpmIdle /\ OrchIdle
    /\ ScrIdle /\ KclIdle /\ ShdIdle /\ TkIdle
    /\ \E mode \in SELinuxModeSet,
          line \in UNION {[1..l -> CommandLineChars] : l \in 0..MaxCommandLineLen} :
          call = [fn |-> "KernelCommandLine.IsValid", pc |-> "call",
                  s |-> [SELinuxMode |-> mode, ExtraCommandLine |-> line],
                  ret |-> "none"]

KclIsValid ==
    /\ call.pc = "call"
    /\ call' = [call EXCEPT !.pc = "done", !.ret = KernelCommandLineIsValid(call.s)]
    /\ CallUnchanged

SpecCommandLine == InitCommandLine /\ [][KclIsValid]_vars

\* C32: KernelCommandLine.IsValid rejects extraCommandLine exactly when it
\* contains a newline, single quote, double quote, backslash, dollar sign
\* or backtick, or the SELinux mode is invalid; every other string, the
\* empty string included, is accepted.
C32_RejectsExactlySpecialCharacters ==
    call.pc = "done" =>
        LET line == call.s.ExtraCommandLine
            special == \/ \E i \in 1..Len(line) : line[i] = "\n"
                       \/ \E i \in 1..Len(line) : line[i] = "'"
                       \/ \E i \in 1..Len(line) : line[i] = "\""
                       \/ \E i \in 1..Len(line) : line[i] = "\\"
                       \/ \E i \in 1..Len(line) : line[i] = "$"
                       \/ \E i \in 1..Len(line) : line[i] = "U+0060"
            badMode == call.s.SELinuxMode = "bogus"
        IN  (call.ret # "none") <=> (special \/ badMode)

\* A backtick at the end of an otherwise plain line.
C32_Witness ==
    /\ call.pc = "done"
    /\ call.s.SELinuxMode = "enforcing"
    /\ call.s.ExtraCommandLine = <<"a", "=", "U+0060">>
    /\ call.ret = "invalidCharacters"

C32_WitnessEmpty ==
    call.pc = "done" /\ call.s.ExtraCommandLine = <<>> /\ call.ret = "none"

C32_WitnessAccepted ==
    /\ call.pc = "done"
    /\ call.s.ExtraCommandLine = <<"a", "=", "a">>
    /\ call.s.SELinuxMode = ""
    /\ call.ret = "none"

(***************************************************************************)
(* runScripts and its mount of the configuration directory (SpecScripts).  *)
(***************************************************************************)

\* The positions of call c in the calls runScripts has made.
ScrCallsAt(c) == {k \in 1..Len(scr.calls) : scr.calls[k] = c}

C33_WitnessEmptyList ==
    /\ scr.pc = "done"
    /\ scr.scripts = <<>>
    /\ scr.calls = <<"mkdir", "mount", "unmount", "remove">>
    /\ ~scr.fs.mounted /\ scr.fs.dir = "absent"

C33_WitnessSuccess ==
    /\ scr.pc = "done"
    /\ Len(scr.ran) = 2
    /\ scr.err = NoErr
    /\ ~scr.fs.mounted /\ scr.fs.dir = "absent"

\* The unmount failed in the explicit and in the deferred Close.
C33_WitnessUnmountFailed ==
    /\ scr.pc = "done"
    /\ scr.fs.mounted
    /\ Cardinality(ScrCallsAt("unmount")) = 2

(***************************************************************************)
(* findPartitions and its scratch mount (SpecParts).                       *)
(***************************************************************************)

\* findPartitions got its scratch mount.
ScratchMounted ==
    call.pc = "done"
        /\ call.ret.err \notin {"getDiskPartitions", "noEfiSystemPartition", "mount"}

\* C34: findPartitions closes the scratch mount of the EFI system partition
\* before it returns on every path (grub.cfg unreadable, no root identifier
\* found, success): Close is called after the read of grub.cfg, the mount
\* is released and the scratch directory removed unless every unmount call
\* of the path failed, and it is never still mounted when findPartitions
\* gets past the explicit Close, so not when the mount points are returned.
C34_ScratchMountClosedOnEveryPath ==
    call.pc = "done" =>
        LET calls == call.ret.calls
            released == ~call.ret.fs.mounted /\ call.ret.fs.dir = "absent"
        IN  /\ ScratchMounted =>
                  /\ \E k \in 1..Len(calls) :
                        /\ calls[k] = "unmount"
                        /\ \E j \in 1..(k - 1) : calls[j] = "read"
                  /\ call.ret.err = "readGrubCfg" => (call.o.deferred => released)
                  /\ call.ret.err = "close" => (call.o.deferred => released)
                  /\ call.ret.err \in {"noRootfs", "panic", "none"} => released
            /\ ~ScratchMounted => ~call.ret.fs.mounted
            /\ call.ret.mountPoints # <<>> => released

\* grub.cfg could not be read; the deferred Close released the mount.
C34_Witness ==
    /\ call.pc = "done"
    /\ call.ret.err = "readGrubCfg"
    /\ call.ret.calls = <<"mkdir", "mount", "read", "unmount", "remove">>
    /\ ~call.ret.fs.mounted

C34_WitnessNoRootfs ==
    /\ call.pc = "done"
    /\ call.ret.err = "noRootfs"
    /\ call.ret.calls = <<"mkdir", "mount", "read", "unmount", "remove">>

C34_WitnessSuccess ==
    /\ call.pc = "done"
    /\ call.ret.err = "none"
    /\ Len(call.ret.mountPoints) = 2
    /\ ~call.ret.fs.mounted /\ call.ret.fs.dir = "absent"

\* C38: when the root file system identifier found in grub.cfg matches no
\* enumerated partition of the disk, findPartitions returns an error: it
\* neither crashes nor returns a mount list.
C38_UnknownRootfsIsAnError ==
    (/\ call.pc = "done"
     /\ call.ret.err \notin {"getDiskPartitions", "noEfiSystemPartition", "mount",
                             "readGrubCfg", "close"}
     /\ call.o.match # ""
     /\ \A i \in 1..Len(call.diskPartitions) : call.diskPartitions[i].Uuid # call.o.match)
        => (call.ret.err \notin {"panic", "none"} /\ call.ret.mountPoints = <<>>)

(***************************************************************************)
(* rpmSourcesMounts.close and the parent directory (SpecRpm).              *)
(***************************************************************************)

\* The mount targets that still have a file system mounted on them.
RpmStillMounted == {k \in 1..MaxRpmMounts : rfs.t[k].mounted}

\* C35: close never removes the parent directory while one of its mount
\* handles is still mounted: if any mount fails to unmount, close returns
\* an error that holds the unmount failure together with the other
\* failures, has still called Close on every mount, has not tried to remove
\* the parent directory and leaves it in place; and the removal is not
\* recursive: a parent directory that close removed held no mount directory
\* and no allrepos.repo.
C35_ParentKeptWhileMounted ==
    rret.closeRan =>
        /\ \A k \in 1..rhist.acquired : InSeq(<<"close", k>>, rret.events)
        /\ RpmStillMounted # {} =>
              /\ "unmount" \in rret.closeErr
              /\ ~InSeq(<<"rmParent", 0>>, rret.events)
              /\ rhist.created => rfs.parent
        /\ rfs.repoFile => "rmRepo" \in rret.closeErr
        /\ InSeq(<<"rmParent", 0>>, rret.events) =>
              /\ RpmStillMounted = {}
              /\ ~rfs.repoFile
              /\ rret.closeErr \subseteq {"rmParent"}
              /\ ~rfs.parent =>
                    \A k \in 2..MaxRpmMounts : rfs.t[k].dir = "absent"

\* The first of three mounts would not unmount: the other two were closed
\* and the parent directory was left in place.
C35_Witness ==
    /\ rret.op = "close"
    /\ rhist.acquired = 3 /\ rhist.created
    /\ RpmStillMounted = {1}
    /\ rret.closeErr = {"unmount"}
    /\ InSeq(<<"close", 3>>, rret.events)
    /\ rfs.parent

\* A mount inside the parent directory would not unmount and allrepos.repo
\* could not be deleted: both failures are in the error.
C35_WitnessAggregated ==
    /\ rret.op = "close"
    /\ 2 \in RpmStillMounted
    /\ rret.closeErr = {"rmRepo", "unmount"}
    /\ rfs.parent

(***************************************************************************)
(* createRepoFromRpmsTarball and the directory of extracted tarballs.      *)
(* A directory <extractedRpmsDir>/<hash> is "absent", "empty" (just        *)
(* made), "partial" (extraction or repo creation begun and not finished)   *)
(* or "complete" (extracted and turned into a repo).                       *)
(***************************************************************************)

\* Number of calls of createRepoFromRpmsTarball on one build directory.
MaxTarballCalls == 3

\* The SHA-256 values of the tarballs.
TarballHashes == {"h1", "h2"}

\* The step of one call that the host makes fail.
TarballFailSet ==
    {"none", "hash", "stat", "mkdir", "extract", "createRepo", "mount", "append"}

\* createRepoFromRpmsTarballHelper: extractTarball, then CreateRepo.
createRepoFromRpmsTarballHelper(fail) ==
    IF fail = "extract" THEN [dir |-> "partial", err |-> "extract"]
    ELSE IF fail = "createRepo" THEN [dir |-> "partial", err |-> "createRepo"]
    ELSE [dir |-> "complete", err |-> "none"]

\* createRepoFromRpmsTarball.  dirs: the state of the extract directory of
\* each hash; o.fail: the step the host makes fail; o.removeOk: whether
\* os.RemoveAll of the extract directory succeeds.  extracted: the helper
\* was called; removeErr: os.RemoveAll failed (which is only logged).
createRepoFromRpmsTarball(dirs, rpmSourceHash, o) ==
    LET Ret(e, d, extracted, removeErr) ==
            [err |-> e, dirs |-> d, extracted |-> extracted, removeErr |-> removeErr]
        extractDirectoryExists == dirs[rpmSourceHash] # "absent"
    IN  IF o.fail = "hash" THEN Ret("hash", dirs, FALSE, FALSE)
        ELSE IF o.fail = "stat" THEN Ret("stat", dirs, FALSE, FALSE)
        ELSE IF ~extractDirectoryExists /\ o.fail = "mkdir"
        THEN Ret("mkdir", dirs, FALSE, FALSE)
        ELSE IF ~extractDirectoryExists
                  /\ createRepoFromRpmsTarballHelper(o.fail).err # "none"
        THEN \* removeErr := os.RemoveAll(extractDirectory); return err
             Ret(createRepoFromRpmsTarballHelper(o.fail).err,
                 [dirs EXCEPT ![rpmSourceHash] =
                     IF o.removeOk THEN "absent"
                     ELSE createRepoFromRpmsTarballHelper(o.fail).dir],
                 TRUE, ~o.removeOk)
        ELSE Once(IF ~extractDirectoryExists
                  THEN [dirs EXCEPT ![rpmSourceHash] = "complete"] ELSE dirs,
                  LAMBDA d :
             \* m.mountRpmsDirectory, appendLocalRepo
             IF o.fail = "mount" THEN Ret("mount", d, ~extractDirectoryExists, FALSE)
             ELSE IF o.fail = "append" THEN Ret("append", d, ~extractDirectoryExists, FALSE)
             ELSE Ret("none", d, ~extractDirectoryExists, FALSE))

InitTarball ==
    /\ MountIdle /\ RpmIdle /\ OrchIdle
    /\ ScrIdle /\ KclIdle /\ ShdIdle /\ TkIdle
    /\ \E dirs \in [TarballHashes -> {"absent", "complete"}] :
          call = [fn |-> "createRepoFromRpmsTarball", pc |-> "ready", n |-> 0,
                  dirs |-> dirs,
                  completed |-> [h \in TarballHashes |-> 0],
                  removeFailed |-> {},
                  last |-> [hash |-> "none", existed |-> FALSE, err |-> "none",
                            extracted |-> FALSE]]

\* One call of createRepoFromRpmsTarball for a tarball with hash h.
TarCreateRepoFromRpmsTarball ==
    /\ call.pc = "ready" /\ call.n < MaxTarballCalls
    /\ \E h \in TarballHashes, fail \in TarballFailSet, removeOk \in BOOLEAN :
         \E r \in {createRepoFromRpmsTarball(call.dirs, h,
                                             [fail |-> fail, removeOk |-> removeOk])} :
             call' = [call EXCEPT
                        !.n = call.n + 1,
                        !.dirs = r.dirs,
                        !.completed[h] =
                            IF r.extracted /\ r.dirs[h] = "complete"
                            THEN call.completed[h] + 1 ELSE call.completed[h],
                        !.removeFailed =
                            IF r.removeErr THEN call.removeFailed \cup {h}
                            ELSE call.removeFailed,
                        !.last = [hash |-> h, existed |-> call.dirs[h] # "absent",
                                  err |-> r.err, extracted |-> r.extracted]]
    /\ CallUnchanged

SpecTarball == InitTarball /\ [][TarCreateRepoFromRpmsTarball]_vars

\* C36: a tarball is extracted at most once per content hash: when the
\* extract directory of the hash already exists the tarball is not
\* extracted again, and when extraction or repo creation fails the extract
\* directory just created is deleted, so a directory that exists under
\* extracted_rpms after any call holds a completed extraction.
C36_ExtractedDirectoryIsComplete ==
    /\ \A h \in TarballHashes : call.completed[h] <= 1
    /\ call.last.existed => ~call.last.extracted
    /\ \A h \in TarballHashes : call.dirs[h] \in {"absent", "complete"}

\* The same for the hashes whose extract directory os.RemoveAll did not
\* fail to delete.
C36_ExtractedOncePerHash ==
    /\ \A h \in TarballHashes : call.completed[h] <= 1
    /\ call.last.existed => ~call.last.extracted
    /\ \A h \in TarballHashes :
          call.dirs[h] \notin {"absent", "complete"} => h \in call.removeFailed
    /\ (call.last.err \in {"extract", "createRepo"}
            /\ call.last.hash \notin call.removeFailed)
          => call.dirs[call.last.hash] = "absent"
    /\ (call.last.hash # "none" /\ call.last.err = "none"
            /\ call.last.hash \notin call.removeFailed)
          => call.dirs[call.last.hash] = "complete"

\* The deletion after a failed extraction failed too (it is only logged):
\* the partial directory is left and the next call takes it for extracted.
C36_WitnessDeletionFailed ==
    /\ call.last.err = "none"
    /\ call.last.existed
    /\ call.dirs[call.last.hash] = "partial"
    /\ call.last.hash \in call.removeFailed

\* The extraction failed and was cleaned up, the next call extracted, the
\* third call found the directory and did not extract again.
C36_Witness ==
    /\ call.n = 3
    /\ call.completed["h1"] = 1
    /\ call.last = [hash |-> "h1", existed |-> TRUE, err |-> "none", extracted |-> FALSE]
    /\ call.removeFailed = {}
    /\ call.dirs["h1"] = "complete"

C36_WitnessCleanedUp ==
    /\ call.last.err = "createRepo"
    /\ call.last.extracted
    /\ call.dirs[call.last.hash] = "absent"

\* ---------------------------------------------------------------------
\* Target directories of one rpmSourcesMounts handle that holds many mounts.
\* Names and targets are sequences of characters, so that the text
\* fmt.Sprintf("%02d%s", i, rpmSourceName) produces is compared as text.

\* Most mounts the handle holds: mount 0 is resolv.conf, the others are
\* directories of packages.
MaxHeldMounts == 101

DecimalDigit(d) == <<"0", "1", "2", "3", "4", "5", "6", "7", "8", "9">>[d + 1]

RECURSIVE FormatDecimal(_)
FormatDecimal(i) ==
    IF i < 10 THEN <<DecimalDigit(i)>>
    ELSE Append(FormatDecimal(i \div 10), DecimalDigit(i % 10))

\* The verb %02d: at least two digits, padded with zeros on the left; a
\* number of three digits is written with three.
Sprintf02d(i) == IF i < 10 THEN <<"0">> \o FormatDecimal(i) ELSE FormatDecimal(i)

\* targetName := fmt.Sprintf("%02d%s", i, rpmSourceName)
targetName(i, rpmSourceName) == Sprintf02d(i) \o rpmSourceName

\* Base names of the sources: every source is called "x", but for at most
\* one that is called "0x".
HeldNameSeqs ==
    {[k \in 1..(MaxHeldMounts - 1) |-> IF k = p THEN <<"0", "x">> ELSE <<"x">>] :
        p \in 0..(MaxHeldMounts - 1)}

InitHeld ==
    /\ MountIdle /\ RpmIdle /\ OrchIdle /\ ScrIdle /\ KclIdle /\ ShdIdle /\ TkIdle
    /\ call \in [fn : {"mountRpmsDirectory"}, pc : {"mounting"},
                 names : HeldNameSeqs,
                 mounts : {<<<<"/etc/resolv.conf">>>>},
                 ret : {NoErr}]

\* One call of mountRpmsDirectory for the next source: i is the number of
\* mounts held; a mount that cannot be made leaves m.mounts as it was and
\* ends the composition with the error.
HeldMountRpmsDirectory ==
    /\ call.fn = "mountRpmsDirectory"
    /\ call.pc = "mounting"
    /\ LET i == Len(call.mounts) IN
       IF i > Len(call.names)
       THEN call' = [call EXCEPT !.pc = "done"]
       ELSE \E ok \in BOOLEAN :
              call' = IF ok
                      THEN [call EXCEPT !.mounts = Append(@, targetName(i, call.names[i]))]
                      ELSE [call EXCEPT !.pc = "done", !.ret = "mountFailed"]
    /\ CallUnchanged

SpecHeld == InitHeld /\ [][HeldMountRpmsDirectory]_vars

\* C39: within one handle no two mounts of package directories share a
\* target directory.
C39_TargetsAreDistinct ==
    call.fn = "mountRpmsDirectory" =>
        \A a \in 2..Len(call.mounts) :
            \A b \in 2..(a - 1) : call.mounts[a] # call.mounts[b]

\* Each target begins with the number of mounts held when it was made,
\* and fewer than a hundred and one mounts have distinct targets.
C39_PrefixIsMountCount ==
    call.fn = "mountRpmsDirectory" =>
        /\ \A a \in 2..Len(call.mounts) :
               /\ Len(call.mounts[a]) > Len(Sprintf02d(a - 1))
               /\ SubSeq(call.mounts[a], 1, Len(Sprintf02d(a - 1))) = Sprintf02d(a - 1)
        /\ Len(call.mounts) <= 100 => C39_TargetsAreDistinct

\* The handle holds a hundred and one mounts; the source mounted tenth is
\* called "0x" and the one mounted hundredth "x".
C39_WitnessSameTarget ==
    /\ call.fn = "mountRpmsDirectory"
    /\ Len(call.mounts) = 101
    /\ call.names[10] = <<"0", "x">>
    /\ call.names[100] = <<"x">>
    /\ call.mounts[11] = call.mounts[101]

\* Two sources of the same base name are mounted on different targets.
C39_WitnessSameBaseName ==
    /\ call.fn = "mountRpmsDirectory"
    /\ Len(call.mounts) >= 3
    /\ call.names[1] = call.names[2]
    /\ call.mounts[2] = <<"0", "1", "x">>
    /\ call.mounts[3] = <<"0", "2", "x">>

\* ---------------------------------------------------------------------
\* Types of the sub-words of a word.

\* The sub-words of the WORD tokens emitted so far and of the word that is
\* being read.
WordSubWordSeqs ==
    {tk.tokens[n].subWords : n \in {m \in 1..Len(tk.tokens) : tk.tokens[m].type = "WORD"}}
        \cup {tk.subWords}

\* The sub-word was read by parseUnquotedString: its text does not begin
\* with a quote or a $.
IsUnquoted(sw) == Len(sw.raw) > 0 /\ sw.raw[1] \notin {"\"", "'", "$"}

HasBackslash(sw) == \E j \in 1..Len(sw.raw) : sw.raw[j] = "\\"

\* C37: in every WORD token at most one sub-word is a KEYWORD_STRING and it
\* is the first sub-word of the word; unquoted text that follows another
\* sub-word or a backslash escape is a STRING.
C37_KeywordStringOnlyLeads ==
    \A sws \in WordSubWordSeqs :
        /\ Cardinality({k \in 1..Len(sws) : sws[k].type = "KEYWORD_STRING"}) <= 1
        /\ \A k \in 1..Len(sws) :
               /\ sws[k].type = "KEYWORD_STRING"
                    => k = 1 /\ IsUnquoted(sws[k]) /\ ~HasBackslash(sws[k])
               /\ IsUnquoted(sws[k]) /\ (k > 1 \/ HasBackslash(sws[k]))
                    => sws[k].type = "STRING"

\* A word of a leading keyword, an escape and a quoted string: a"\a is read
\* up to the end of the unquoted text.
C37_Witness ==
    /\ tk.pc = "done"
    /\ \E n \in 1..Len(tk.tokens) :
          /\ tk.tokens[n].type = "WORD"
          /\ Len(tk.tokens[n].subWords) >= 2
          /\ tk.tokens[n].subWords[1].type = "KEYWORD_STRING"
          /\ tk.tokens[n].subWords[2].type = "STRING"
          /\ IsUnquoted(tk.tokens[n].subWords[2])
          /\ HasBackslash(tk.tokens[n].subWords[2])

\* Unquoted text after a quoted string is a STRING.
C37_WitnessAfterQuoted ==
    /\ TokenizedOk
    /\ \E n \in 1..Len(tk.tokens) :
          /\ tk.tokens[n].type = "WORD"
          /\ Len(tk.tokens[n].subWords) = 2
          /\ ~IsUnquoted(tk.tokens[n].subWords[1])
          /\ IsUnquoted(tk.tokens[n].subWords[2])
          /\ tk.tokens[n].subWords[2].type = "STRING"

\* A word that begins with an escape has no KEYWORD_STRING.
C37_WitnessLeadingEscape ==
    /\ TokenizedOk
    /\ Len(tk.tokens) = 1
    /\ tk.tokens[1].type = "WORD"
    /\ Len(tk.tokens[1].subWords) = 1
    /\ tk.tokens[1].subWords[1].type = "STRING"
    /\ tk.tokens[1].subWords[1].raw[1] = "\\"

\* ---------------------------------------------------------------------
\* Termination of TokenizeGrubConfig.

\* The tokenizer runs on: a step that can be taken is taken.
SpecTokFair == SpecTok /\ WF_vars(NextTok)

TokensNonEmpty == \A n \in 1..Len(tk.tokens) : Len(tk.tokens[n].raw) > 0

\* A step of the tokenizer does not move the scanner backwards, and an
\* iteration that stays in the same loop consumes at least one character.
ConsumesOrStops ==
    /\ tk'.idx >= tk.idx
    /\ tk'.pc = tk.pc => tk'.idx > tk.idx

\* C40: TokenizeGrubConfig terminates on every finite input: each iteration
\* of the tokenize loop and of every sub-parser consumes at least one
\* character or stops, every emitted token has a non-empty RawContent and
\* the scanner position never moves backwards.
C40_TokenizeTerminates ==
    /\ []TokensNonEmpty
    /\ [][ConsumesOrStops]_vars
    /\ <>(tk.pc = "done")

\* The tokenizer has returned after reading a content of several kinds of
\* token to its end.
C40_Witness ==
    /\ tk.pc = "done"
    /\ tk.idx = Len(tk.content)
    /\ Len(tk.content) >= 3
    /\ Len(tk.tokens) >= 3
    /\ \E n \in 1..Len(tk.tokens) : tk.tokens[n].type = "WORD"
    /\ \E n \in 1..Len(tk.tokens) : tk.tokens[n].type = "SPACE"

\* The tokenizer has returned with an error before the end of the content.
C40_WitnessError ==
    /\ tk.pc = "done"
    /\ tk.err # NoTkErr
    /\ tk.idx < Len(tk.content)
    /\ TokensNonEmpty

====
